---------------------------- MODULE Spec2Model ----------------------------
(***************************************************************************)
(* The drawing-analyser pipeline of the CRM backend                        *)
(* (backend/routes/drawing_analyser.py): the cell parsers, the upload,     *)
(* optimize and delete handlers behind the module gate, and the nesting    *)
(* optimizer the optimize handler calls; with it the form tokens of        *)
(* backend/routes/form_routes.py and the login rate limit of               *)
(* backend/routes/auth_routes.py.                                          *)
(*                                                                         *)
(* Eight specifications share the module's variables:                      *)
(*   SpecParse       the two cell parsers applied to bounded strings;      *)
(*   SpecOpt         one NestingOptimizer.optimize call, piece by piece,   *)
(*                   run twice on the same input;                          *)
(*   SpecOptimize    one optimize request on every small cutting list;     *)
(*   Spec            the HTTP handlers, one request after the other, over  *)
(*                   the database and the upload folder;                   *)
(*   SpecArea        one get request on a drawing with rows at full size;  *)
(*   SpecConcurrent  two optimize requests, interleaved;                   *)
(*   SpecForm        the form-token endpoints, two submit requests         *)
(*                   interleaved;                                          *)
(*   SpecLogin       login requests, one after the other, and the clock.   *)
(***************************************************************************)
EXTENDS Integers, Sequences, FiniteSets, TLC

VARIABLES
    value,          \* SpecParse: the cell handed to the parsers
    dimension,      \* SpecParse: what _parse_dimension returned for it
    quantity,       \* SpecParse: what _parse_quantity returned for it
    opt_input,      \* SpecOpt: the pieces and the sheet configuration of the call
    run,            \* SpecOpt: the optimizer's working state during the call
    first_result,   \* SpecOpt: the result of the first call on opt_input
    drawings,       \* the drawings table
    cutting_lists,  \* the cutting_lists table, in insertion order
    files,          \* the paths that exist in the upload folder
    issued,         \* how many uploads have drawn their uuids
    requests,       \* how many requests have been handled
    request,        \* the request handled last
    response,       \* the response to it
    optimizer_pieces, \* the pieces it handed to the optimizer, if it did
    sessions,       \* SpecConcurrent: the optimize requests in progress
    form_tokens,    \* SpecForm: the form_tokens dict of routes/form_routes.py
    customers,      \* SpecForm: the ids of the customers table
    form_rows,      \* SpecForm: the customer_form_data table, in insertion order
    submits,        \* SpecForm: the submit-customer-form requests of each thread
    form_clock,     \* SpecForm: datetime.now(), in days
    form_counts,    \* SpecForm: tokens generated and submit requests received
    form_last,      \* SpecForm: the last validate request and its answer
    users,          \* SpecLogin: the users table, by email
    login_attempts, \* SpecLogin: the login_attempts table, in insertion order
    user_sessions,  \* SpecLogin: the user_sessions table, in insertion order
    auth_clock,     \* SpecLogin: datetime.utcnow(), in units of 5 minutes
    logins,         \* SpecLogin: how many login requests have been handled
    login_last      \* SpecLogin: the last login request and its answer

parse_vars == <<value, dimension, quantity>>
opt_vars == <<opt_input, run, first_result>>
db_vars == <<drawings, cutting_lists>>
app_vars == <<db_vars, files, issued, requests, request, response, optimizer_pieces>>
form_vars == <<form_tokens, customers, form_rows, submits, form_clock, form_counts, form_last>>
auth_vars == <<users, login_attempts, user_sessions, auth_clock, logins, login_last>>
vars == <<parse_vars, opt_vars, app_vars, sessions, form_vars, auth_vars>>

(***************************************************************************)
(* Strings are sequences of characters; a character is a one-token string. *)
(* "sup2" stands for U+00B2 (superscript two): str.isdigit() accepts it,   *)
(* int() and float() do not.                                               *)
(***************************************************************************)
DecimalDigits == {"0", "1", "2", "3", "4", "5", "6", "7", "8", "9"}

DigitVal(ch) ==
    CASE ch = "0" -> 0 [] ch = "1" -> 1 [] ch = "2" -> 2 [] ch = "3" -> 3
      [] ch = "4" -> 4 [] ch = "5" -> 5 [] ch = "6" -> 6 [] ch = "7" -> 7
      [] ch = "8" -> 8 [] ch = "9" -> 9

\* str.isdigit() of one character
IsDigit(ch) == ch \in DecimalDigits \cup {"sup2"}

\* bound on the length of the enumerated cell strings
MaxLen == 4

Alphabet == {"0", "9", ".", "m", "sup2"}

BoundedStrings == UNION {[1..n -> Alphabet] : n \in 0..MaxLen}

Examples ==
    { <<"9", "0", "0", "m", "m">>,          \* "900mm"
      <<"1", "2", ".", "5">>,               \* "12.5"
      <<"N", "/", "A">>,                    \* "N/A"
      <<"4", " ", "p", "c", "s">>,          \* "4 pcs"
      <<"0", " ", "p", "c", "s">>,          \* "0 pcs"
      <<"a", "b", "c">>,                    \* "abc"
      <<"5", "m", "sup2">> }                \* "5m" followed by U+00B2

Strings == BoundedStrings \cup Examples

RECURSIVE Filter(_, _)
\* ''.join(c for c in s if keep(c)), keep given as a set of characters
Filter(s, keep) ==
    IF s = <<>> THEN <<>>
    ELSE IF Head(s) \in keep THEN <<Head(s)>> \o Filter(Tail(s), keep)
         ELSE Filter(Tail(s), keep)

CharsOf(s) == {s[i] : i \in 1..Len(s)}

IsDigitChars(s) == {ch \in CharsOf(s) : IsDigit(ch)}

RECURSIVE Pow10(_)
Pow10(n) == IF n = 0 THEN 1 ELSE 10 * Pow10(n - 1)

RECURSIVE DigitsValue(_)
\* the number a string of decimal digits denotes (0 for the empty string)
DigitsValue(s) ==
    IF s = <<>> THEN 0
    ELSE DigitVal(s[Len(s)]) + 10 * DigitsValue(SubSeq(s, 1, Len(s) - 1))

None == [kind |-> "None", num |-> 0, den |-> 1]
Unset == [kind |-> "unset", num |-> 0, den |-> 1]
IntValue(n) == [kind |-> "int", num |-> n, den |-> 1]
FloatValue(n, d) == [kind |-> "float", num |-> n, den |-> d]
ValueError == [kind |-> "ValueError", num |-> 0, den |-> 1]

\* int(s) for a string of isdigit characters: a ValueError when s is empty
\* or holds a character that is no decimal digit
PyInt(s) ==
    IF s = <<>> \/ CharsOf(s) \ DecimalDigits # {} THEN ValueError
    ELSE IntValue(DigitsValue(s))

DotAt(s) == CHOOSE i \in 1..Len(s) : s[i] = "."

\* float(s) for a string of isdigit characters and points: a ValueError
\* unless s is digits with exactly one point and at least one digit
PyFloat(s) ==
    LET dots == Len(Filter(s, {"."}))
        digits == Filter(s, DecimalDigits)
    IN  IF dots # 1 \/ digits = <<>> \/ CharsOf(s) \ (DecimalDigits \cup {"."}) # {}
        THEN ValueError
        ELSE LET frac == SubSeq(s, DotAt(s) + 1, Len(s))
                 whole == SubSeq(s, 1, DotAt(s) - 1)
             IN  FloatValue(DigitsValue(whole) * Pow10(Len(frac)) + DigitsValue(frac),
                            Pow10(Len(frac)))

\* _parse_dimension with the decimal point stripped like any other character
_parse_dimension_digits_only(v) ==
    IF v = <<>> \/ v = <<"N", "/", "A">> THEN None
    ELSE LET r == PyInt(Filter(v, IsDigitChars(v)))
         IN  IF r = ValueError THEN None ELSE r

\* _parse_dimension(value)
_parse_dimension(v) ==
    IF v = <<>> \/ v = <<"N", "/", "A">> THEN None
    ELSE LET numeric_str == Filter(v, IsDigitChars(v) \cup {"."})
             r == IF "." \in CharsOf(numeric_str) THEN PyFloat(numeric_str)
                  ELSE PyInt(numeric_str)
         IN  IF r = ValueError THEN None ELSE r

\* a quantity parser that answers 0 where no integer can be read
_parse_quantity_default_zero(v) ==
    LET r == PyInt(Filter(v, IsDigitChars(v)))
    IN  IF r = ValueError THEN IntValue(0) ELSE r

\* _parse_quantity(value)
_parse_quantity(v) ==
    LET r == PyInt(Filter(v, IsDigitChars(v)))
    IN  IF r = ValueError THEN IntValue(1) ELSE r

(***************************************************************************)
(* NestingOptimizer (services/nesting_optimizer.py, imported at            *)
(* drawing_analyser.py:13).  The optimizer's working state is a record:    *)
(* the queue of piece instances still to place (largest area first), the   *)
(* free rectangles of the open sheets, the placements made, the number of  *)
(* open sheets and the status of the call.                                 *)
(***************************************************************************)

\* bounds on the enumerated optimizer inputs
MaxDim == 2
MaxPieces == 3

SheetWidths == {2, 4}
SheetHeights == {1, 3}
BladeWidths == {0, 1}

NoCall == [pieces |-> <<>>, sheet_width |-> 0, sheet_height |-> 0, blade_width |-> 0]

NoRun ==
    [status |-> "idle", queue |-> <<>>, free |-> {}, placements |-> <<>>,
     sheets |-> 0, error |-> "", piece_id |-> <<>>]

NoResult == [kind |-> "none"]

Area(p) == p.width * p.height

RECURSIVE InsertByArea(_, _)
\* p put into a list sorted by descending area, after the pieces of its area
InsertByArea(sorted, p) ==
    IF sorted = <<>> THEN <<p>>
    ELSE IF Area(Head(sorted)) >= Area(p)
         THEN <<Head(sorted)>> \o InsertByArea(Tail(sorted), p)
         ELSE <<p>> \o sorted

RECURSIVE SortByArea(_)
\* the pieces by descending area, pieces of equal area in input order
SortByArea(ps) ==
    IF ps = <<>> THEN <<>>
    ELSE InsertByArea(SortByArea(SubSeq(ps, 1, Len(ps) - 1)), ps[Len(ps)])

\* the piece instances of a call: each input piece with its position
Instances(pieces) ==
    [i \in 1..Len(pieces) |->
        [inst |-> i, id |-> pieces[i].id, width |-> pieces[i].width,
         height |-> pieces[i].height]]

\* FitsIn comparing the width only
FitsIn_WidthOnly(w, h, r) == w <= r.w

FitsIn(w, h, r) == w <= r.w /\ h <= r.h

\* the piece fits the rectangle as declared or rotated by 90 degrees
CanHold(r, p) == FitsIn(p.width, p.height, r) \/ FitsIn(p.height, p.width, r)

FullSheet(cfg, index) ==
    [sheet |-> index, x |-> 0, y |-> 0, w |-> cfg.sheet_width, h |-> cfg.sheet_height]

\* TooLarge looking at the declared orientation only
TooLarge_NoRotation(cfg, p) == ~FitsIn(p.width, p.height, FullSheet(cfg, 0))

\* the piece exceeds the sheet in both orientations
TooLarge(cfg, p) == ~CanHold(FullSheet(cfg, 0), p)

TooLargeAt(cfg, pieces) == {i \in 1..Len(pieces) : TooLarge(cfg, pieces[i])}

\* the pieces that break the Piece invariant width > 0 and height > 0
InvalidAt(pieces) ==
    {i \in 1..Len(pieces) : pieces[i].width <= 0 \/ pieces[i].height <= 0}

First(indexes) == CHOOSE j \in indexes : \A k \in indexes : j <= k

\* a configuration error: a sheet dimension that is not positive or a
\* negative blade width
InvalidConfig(cfg) ==
    cfg.sheet_width <= 0 \/ cfg.sheet_height <= 0 \/ cfg.blade_width < 0

\* StartRun without the check for a piece that fits no sheet
StartRun_NoCheck(cfg) ==
    [NoRun EXCEPT !.status = IF cfg.pieces = <<>> THEN "done" ELSE "running",
                  !.queue = SortByArea(Instances(cfg.pieces)),
                  !.free = {FullSheet(cfg, 0)},
                  !.sheets = 1]

\* the first step of optimize: refuse a configuration error, a piece with
\* a dimension that is not positive and a piece that fits no sheet, else
\* sort the instances and open the first sheet
StartRun(cfg) ==
    IF InvalidConfig(cfg)
    THEN [NoRun EXCEPT !.status = "error", !.error = "invalid configuration"]
    ELSE IF InvalidAt(cfg.pieces) # {}
    THEN [NoRun EXCEPT !.status = "error", !.error = "invalid piece dimensions",
                       !.piece_id = cfg.pieces[First(InvalidAt(cfg.pieces))].id]
    ELSE IF TooLargeAt(cfg, cfg.pieces) # {}
    THEN [NoRun EXCEPT !.status = "error", !.error = "piece too large",
                       !.piece_id = cfg.pieces[First(TooLargeAt(cfg, cfg.pieces))].id]
    ELSE [NoRun EXCEPT !.status = IF cfg.pieces = <<>> THEN "done" ELSE "running",
                       !.queue = SortByArea(Instances(cfg.pieces)),
                       !.free = {FullSheet(cfg, 0)},
                       !.sheets = 1]

Candidates(r, p) == {f \in r.free : CanHold(f, p)}

\* best fit: the candidates of smallest area
BestFits(r, p) ==
    {f \in Candidates(r, p) : \A g \in Candidates(r, p) : f.w * f.h <= g.w * g.h}

\* TieBreakBefore comparing the sheet index only
TieBreakBefore_SheetOnly(f, g) == f.sheet < g.sheet

\* ties: lowest sheet index first, then lowest y, then lowest x
TieBreakBefore(f, g) ==
    \/ f.sheet < g.sheet
    \/ f.sheet = g.sheet /\ f.y < g.y
    \/ f.sheet = g.sheet /\ f.y = g.y /\ f.x < g.x

\* the rectangles the scan may settle on: best fits no other best fit precedes
Chosen(r, p) ==
    {f \in BestFits(r, p) : \A g \in BestFits(r, p) : ~TieBreakBefore(g, f)}

\* SplitRects with the strips starting at the piece's edge, no kerf between
SplitRects_NoKerf(f, pw, ph, kerf) ==
    {g \in { [sheet |-> f.sheet, x |-> f.x + pw, y |-> f.y,
              w |-> f.w - pw, h |-> ph],
             [sheet |-> f.sheet, x |-> f.x, y |-> f.y + ph,
              w |-> f.w, h |-> f.h - ph] } : g.w > 0 /\ g.h > 0}

\* guillotine split of f after a pw x ph piece was put at its origin: the
\* strip to the right of the piece and the strip below it, a kerf away
SplitRects(f, pw, ph, kerf) ==
    {g \in { [sheet |-> f.sheet, x |-> f.x + pw + kerf, y |-> f.y,
              w |-> f.w - pw - kerf, h |-> ph],
             [sheet |-> f.sheet, x |-> f.x, y |-> f.y + ph + kerf,
              w |-> f.w, h |-> f.h - ph - kerf] } : g.w > 0 /\ g.h > 0}

Placement(f, p) ==
    [inst |-> p.inst, id |-> p.id, sheet_index |-> f.sheet, x |-> f.x, y |-> f.y,
     rotated |-> ~FitsIn(p.width, p.height, f), width |-> p.width, height |-> p.height]

PlacedWidth(pl) == IF pl.rotated THEN pl.height ELSE pl.width
PlacedHeight(pl) == IF pl.rotated THEN pl.width ELSE pl.height

\* the head of the queue placed at the origin of free rectangle f
PlaceIn(cfg, r, f) ==
    LET pl == Placement(f, Head(r.queue))
    IN  [r EXCEPT !.queue = Tail(r.queue),
                  !.free = (r.free \ {f}) \cup
                           SplitRects(f, PlacedWidth(pl), PlacedHeight(pl), cfg.blade_width),
                  !.placements = Append(r.placements, pl),
                  !.status = IF Tail(r.queue) = <<>> THEN "done" ELSE "running"]

\* no open sheet can take the head of the queue: a new sheet is opened for it
OpenSheet(cfg, r) ==
    PlaceIn(cfg, [r EXCEPT !.sheets = r.sheets + 1,
                           !.free = r.free \cup {FullSheet(cfg, r.sheets)}],
            FullSheet(cfg, r.sheets))

\* a loop that opens a sheet for every piece after the first
StepRuns_SheetPerPiece(cfg, r) ==
    IF r.placements = <<>> THEN {PlaceIn(cfg, r, f) : f \in Chosen(r, Head(r.queue))}
    ELSE {OpenSheet(cfg, r)}

\* the states one step of the placement loop may lead to
StepRuns(cfg, r) ==
    IF Candidates(r, Head(r.queue)) = {} THEN {OpenSheet(cfg, r)}
    ELSE {PlaceIn(cfg, r, f) : f \in Chosen(r, Head(r.queue))}

RECURSIVE PlacedArea(_)
\* the sum of the areas of the placed pieces
PlacedArea(placements) ==
    IF placements = <<>> THEN 0
    ELSE Area(Head(placements)) + PlacedArea(Tail(placements))

\* a sheet area that forgets how many sheets were used
SheetsArea_OneSheet(cfg, sheets) == cfg.sheet_width * cfg.sheet_height

\* number of sheets used x sheet area
SheetsArea(cfg, sheets) == sheets * cfg.sheet_width * cfg.sheet_height

\* a percentage cut off after its second decimal
Percent2_Truncated(part, whole) ==
    ((part * 100) \div whole) * 100 + (((part * 100) % whole) * 100) \div whole

\* round(part * 100 / whole, 2) in hundredths of a percent, a tie going to
\* the even hundredth; the division is done digit by digit to stay within
\* 32 bits
Percent2(part, whole) ==
    LET units == (part * 100) \div whole
        rest == (part * 100) % whole
        below == units * 100 + (rest * 100) \div whole
        left == (rest * 100) % whole
    IN  IF 2 * left > whole THEN below + 1
        ELSE IF 2 * left = whole THEN below + (below % 2)
        ELSE below

\* what optimize returns: the layout with utilization_percent (2 decimal
\* places) and waste_area_mm2, or the error
Result(cfg, r) ==
    IF r.status = "error"
    THEN [kind |-> "error", error |-> r.error, piece_id |-> r.piece_id]
    ELSE [kind |-> "ok", sheets_used |-> r.sheets, placements |-> r.placements,
          utilization_percent |->
              FloatValue(Percent2(PlacedArea(r.placements), SheetsArea(cfg, r.sheets)), 100),
          waste_area_mm2 |-> SheetsArea(cfg, r.sheets) - PlacedArea(r.placements)]

(***************************************************************************)
(* The drawing-analyser handlers.  A nullable Integer column holds None or *)
(* IntValue(n), the values the parsers produce.                            *)
(***************************************************************************)

\* bounds on the enumerated database rows and on the length of a run
MaxQty == 2
MaxRequests == 2

\* the tenants table: t3 has the module switched off
TenantIds == {"t1", "t2", "t3"}

tenants ==
    [t \in TenantIds |->
        [enabled_modules |-> IF t = "t3" THEN {} ELSE {"cutting_list_generator"}]]

\* the X-Tenant-ID values of the requests: "t9" names no tenant
HeaderTenants == TenantIds \cup {"t9"}

\* the defaults of the optimize request
DEFAULT_SHEET_WIDTH == 2440
DEFAULT_SHEET_HEIGHT == 1220
DEFAULT_BLADE_WIDTH == 3

\* a data row needs this many cells
MIN_CELLS == 7

ALLOWED_EXTENSIONS == {"png", "jpg", "jpeg", "pdf"}

\* str.lower() on the extensions of the enumerated file names
Lower(s) == IF s = "PDF" THEN "pdf" ELSE s

\* allowed_file(filename): a name is its stem and what follows the last dot
\* (no dot: has_dot is FALSE)
allowed_file(filename) ==
    filename.has_dot /\ Lower(filename.ext) \in ALLOWED_EXTENSIONS

NoFile == [present |-> FALSE, stem |-> "", has_dot |-> FALSE, ext |-> ""]

FileName(stem, has_dot, ext) ==
    [present |-> TRUE, stem |-> stem, has_dot |-> has_dot, ext |-> ext]

\* request.files['file'] of the enumerated uploads
UploadFiles ==
    { NoFile, FileName("", FALSE, ""), FileName("plan", FALSE, ""),
      FileName("plan", TRUE, "exe"), FileName("plan", TRUE, "PDF") }

\* the uuids uuid.uuid4() hands out, in order: a drawing id and a file name
UploadIds == <<"u1", "u2">>

FilePath(id) == <<"uploads/drawings", id>>

Response(status, error, body) == [status |-> status, error |-> error, body |-> body]

NoBody == [kind |-> "none"]

NoResponse == Response(0, "", NoBody)

NoRequest == [op |-> "none"]

NotCalled == [called |-> FALSE, pieces |-> <<>>]

Pass == Response(0, "pass", NoBody)

\* a gate that looks the tenant up and lets every known tenant pass
require_module_NoModuleCheck(module_name, tenant_id) ==
    IF tenant_id \notin TenantIds
    THEN Response(404, "Tenant not found", NoBody)
    ELSE Pass

\* require_module(module_name): the response that ends the request, or Pass
require_module(module_name, tenant_id) ==
    IF tenant_id \notin TenantIds
    THEN Response(404, "Tenant not found", NoBody)
    ELSE IF module_name \notin tenants[tenant_id].enabled_modules
         THEN Response(403, "Module not enabled for this tenant", NoBody)
         ELSE Pass

\* Drawing.query.filter_by(id=drawing_id, tenant_id=tenant_id)
DrawingsOf_AnyTenant(ds, drawing_id, tenant_id) ==
    {d \in ds : d.id = drawing_id}

DrawingsOf(ds, drawing_id, tenant_id) ==
    {d \in ds : d.id = drawing_id /\ d.tenant_id = tenant_id}

\* CuttingList.query.filter_by(drawing_id=drawing_id).all()
ItemsOf(rows, drawing_id) ==
    SelectSeq(rows, LAMBDA item : item.drawing_id = drawing_id)

NullResult == [kind |-> "null"]

\* an exception no handler catches: Flask answers 500
Unhandled(exception) == Response(500, "Internal Server Error", [kind |-> exception])

\* ---- optimize_nesting ----

RECURSIVE Repeat(_, _)
\* [x for _ in range(n)]
Repeat(x, n) == IF n <= 0 THEN <<>> ELSE <<x>> \o Repeat(x, n - 1)

PieceOf(item) ==
    [id |-> item.id, width |-> item.component_width, height |-> item.height,
     name |-> item.part_name]

RECURSIVE BuildPieces_OnePerRow(_)
\* a loop that forgets the quantity: one piece per item
BuildPieces_OnePerRow(items) ==
    IF items = <<>> THEN <<>>
    ELSE <<PieceOf(Head(items))>> \o BuildPieces_OnePerRow(Tail(items))

RECURSIVE BuildPieces(_)
\* the loop that expands every item by its quantity (no item's quantity None)
BuildPieces(items) ==
    IF items = <<>> THEN <<>>
    ELSE Repeat(PieceOf(Head(items)), Head(items).quantity.num)
             \o BuildPieces(Tail(items))

\* range(item.quantity) raises a TypeError for a quantity of None
RangeRaises(items) == \E i \in 1..Len(items) : items[i].quantity = None

RECURSIVE RunAll(_, _)
\* the placement loop run to its end
RunAll(cfg, r) ==
    IF r.status = "running"
    THEN RunAll(cfg, CHOOSE n \in StepRuns(cfg, r) : TRUE)
    ELSE r

\* arithmetic on a dimension of None raises a TypeError in the optimizer
OptimizerRaises(pieces) ==
    \E i \in 1..Len(pieces) : pieces[i].width = None \/ pieces[i].height = None

\* the optimizer's view of the call: the pieces' dimensions as numbers
OptimizerInput(pieces, data) ==
    [pieces |-> [i \in 1..Len(pieces) |->
                    [id |-> pieces[i].id, width |-> pieces[i].width.num,
                     height |-> pieces[i].height.num, name |-> pieces[i].name]],
     sheet_width |-> data.sheet_width, sheet_height |-> data.sheet_height,
     blade_width |-> data.blade_width]

\* NestingOptimizer(sheet_width, sheet_height, blade_width).optimize(pieces)
optimize(pieces, data) ==
    Result(OptimizerInput(pieces, data),
           RunAll(OptimizerInput(pieces, data), StartRun(OptimizerInput(pieces, data))))

\* ---- upload_drawing ----

\* the name `self` of lines 137-141: upload_drawing is a plain function and
\* the module defines no global of that name, so looking it up raises
SelfDefined == FALSE

NameError == [kind |-> "NameError"]

\* CuttingList(...) of lines 132-144
NewCuttingItem(row, drawing_id, index) ==
    IF ~SelfDefined THEN NameError
    ELSE [kind |-> "CuttingList",
          id |-> <<drawing_id, index>>,
          drawing_id |-> drawing_id,
          component_type |-> row[1],
          part_name |-> row[2],
          overall_unit_width |-> _parse_dimension(row[3]),
          component_width |-> _parse_dimension(row[4]),
          height |-> _parse_dimension(row[5]),
          quantity |-> _parse_quantity(row[6]),
          material_thickness |-> _parse_dimension(row[7]),
          edge_banding_notes |-> IF Len(row) > MIN_CELLS THEN row[8] ELSE None]

RECURSIVE CuttingItems_NoSkip(_, _, _)
\* the loop without the test of line 129: every row builds a record
CuttingItems_NoSkip(table_data, drawing_id, index) ==
    IF index > Len(table_data) THEN <<>>
    ELSE LET item == NewCuttingItem(table_data[index], drawing_id, index)
             rest == CuttingItems_NoSkip(table_data, drawing_id, index + 1)
         IN  IF item = NameError \/ rest = <<NameError>> THEN <<NameError>>
             ELSE <<item>> \o rest

RECURSIVE CuttingItems(_, _, _)
\* the loop over table_data[1:], rows given from index on: the items it
\* adds, or <<NameError>> once an exception ended it
CuttingItems(table_data, drawing_id, index) ==
    IF index > Len(table_data) THEN <<>>
    ELSE IF Len(table_data[index]) < MIN_CELLS
         THEN CuttingItems(table_data, drawing_id, index + 1)
         ELSE LET item == NewCuttingItem(table_data[index], drawing_id, index)
                  rest == CuttingItems(table_data, drawing_id, index + 1)
              IN  IF item = NameError \/ rest = <<NameError>> THEN <<NameError>>
                  ELSE <<item>> \o rest

(***************************************************************************)
(* The idle values of each group of variables.                             *)
(***************************************************************************)

ParseIdle == value = <<>> /\ dimension = Unset /\ quantity = Unset

OptIdle == opt_input = NoCall /\ run = NoRun /\ first_result = NoResult

AppIdle ==
    /\ drawings = {}
    /\ cutting_lists = <<>>
    /\ files = {}
    /\ issued = 0
    /\ requests = 0
    /\ request = NoRequest
    /\ response = NoResponse
    /\ optimizer_pieces = NotCalled

\* no optimize request is in progress
ConcIdle == sessions = <<>>

\* no form token was generated and no form was submitted
FormIdle ==
    /\ form_tokens = <<>>
    /\ customers = {}
    /\ form_rows = <<>>
    /\ submits = <<>>
    /\ form_clock = 0
    /\ form_counts = [tokens |-> 0, submits |-> 0]
    /\ form_last = NoRequest

\* no login was attempted
AuthIdle ==
    /\ users = <<>>
    /\ login_attempts = <<>>
    /\ user_sessions = <<>>
    /\ auth_clock = 0
    /\ logins = 0
    /\ login_last = NoRequest

\* ---- SpecParse ----

InitParse ==
    /\ value \in Strings
    /\ dimension = Unset
    /\ quantity = Unset
    /\ OptIdle
    /\ AppIdle
    /\ ConcIdle
    /\ FormIdle
    /\ AuthIdle

CallParseDimension ==
    /\ dimension = Unset
    /\ dimension' = _parse_dimension(value)
    /\ UNCHANGED <<value, quantity, opt_vars, app_vars, sessions, form_vars, auth_vars>>

CallParseQuantity ==
    /\ quantity = Unset
    /\ quantity' = _parse_quantity(value)
    /\ UNCHANGED <<value, dimension, opt_vars, app_vars, sessions, form_vars, auth_vars>>

NextParse == CallParseDimension \/ CallParseQuantity

SpecParse == InitParse /\ [][NextParse]_vars

\* ---- SpecOpt ----

PieceKinds == [width : 1..MaxDim, height : 1..MaxDim]

PieceLists ==
    UNION {{[i \in 1..n |-> [id |-> <<"p", i>>, width |-> ks[i].width,
                             height |-> ks[i].height, name |-> "part"]]
            : ks \in [1..n -> PieceKinds]}
           : n \in 0..MaxPieces}

Part(i, width, height) ==
    [id |-> <<"p", i>>, width |-> width, height |-> height, name |-> "part"]

\* calls at full size: four 600 x 720 pieces of one row on the default
\* sheet; a 142 x 142 sheet cut without kerf into 141 x 142 and 1 x 141,
\* which leaves 1 mm2
SampleCalls ==
    { [pieces |-> <<Part(1, 600, 720), Part(1, 600, 720), Part(1, 600, 720),
                    Part(1, 600, 720)>>,
       sheet_width |-> DEFAULT_SHEET_WIDTH, sheet_height |-> DEFAULT_SHEET_HEIGHT,
       blade_width |-> DEFAULT_BLADE_WIDTH],
      [pieces |-> <<Part(1, 141, 142), Part(2, 1, 141)>>,
       sheet_width |-> 142, sheet_height |-> 142, blade_width |-> 0] }

InitOpt ==
    /\ ParseIdle
    /\ AppIdle
    /\ ConcIdle
    /\ FormIdle
    /\ AuthIdle
    /\ opt_input \in [pieces : PieceLists, sheet_width : SheetWidths,
                      sheet_height : SheetHeights, blade_width : BladeWidths]
                     \cup SampleCalls
    /\ run = NoRun
    /\ first_result = NoResult

\* optimizer = NestingOptimizer(...); optimizer.optimize(pieces) begins
StartOptimize ==
    /\ run.status = "idle"
    /\ run' = StartRun(opt_input)
    /\ UNCHANGED <<parse_vars, sessions, form_vars, auth_vars, app_vars, opt_input, first_result>>

\* one turn of the placement loop
PlaceNext ==
    /\ run.status = "running"
    /\ run' \in StepRuns(opt_input, run)
    /\ UNCHANGED <<parse_vars, sessions, form_vars, auth_vars, app_vars, opt_input, first_result>>

\* the call has returned; the same input is handed to a second call
CallAgain ==
    /\ run.status \in {"done", "error"}
    /\ first_result = NoResult
    /\ first_result' = Result(opt_input, run)
    /\ run' = NoRun
    /\ UNCHANGED <<parse_vars, sessions, form_vars, auth_vars, app_vars, opt_input>>

NextOpt == StartOptimize \/ PlaceNext \/ CallAgain

SpecOpt == InitOpt /\ [][NextOpt]_vars

\* ---- Spec and SpecOptimize: the handlers over the database ----

Dims == {None} \cup {IntValue(n) : n \in 0..MaxDim}

Quantities == {None} \cup {IntValue(n) : n \in 0..MaxQty}

RowKinds == [component_width : Dims, height : Dims, quantity : Quantities]

\* a persisted cutting_lists row of a drawing
Row(drawing_id, index, kind) ==
    [kind |-> "CuttingList",
     id |-> <<drawing_id, index>>,
     drawing_id |-> drawing_id,
     component_type |-> <<"B">>,
     part_name |-> <<"U">>,
     overall_unit_width |-> None,
     component_width |-> kind.component_width,
     height |-> kind.height,
     quantity |-> kind.quantity,
     material_thickness |-> None,
     edge_banding_notes |-> None]

\* the cutting lists of up to n rows
RowLists(drawing_id, n) ==
    UNION {{[i \in 1..m |-> Row(drawing_id, i, ks[i])] : ks \in [1..m -> RowKinds]}
           : m \in 0..n}

Drawing(id, tenant_id, status, now) ==
    [id |-> id, tenant_id |-> tenant_id, status |-> status, file_path |-> FilePath(id),
     optimization_result |-> NullResult, updated_at |-> now]

OneByOne == [component_width |-> IntValue(1), height |-> IntValue(1), quantity |-> IntValue(1)]

\* the database holds drawing d1 of tenant t1 with one of the given cutting
\* lists and drawing d2 of tenant t2 with a single 1 x 1 row
InitDb(lists) ==
    /\ ParseIdle
    /\ OptIdle
    /\ drawings = {Drawing("d1", "t1", "completed", 0), Drawing("d2", "t2", "completed", 0)}
    /\ cutting_lists \in {l \o <<Row("d2", 1, OneByOne)>> : l \in lists}
    /\ files = {FilePath("d1"), FilePath("d2")}
    /\ issued = 0
    /\ requests = 0
    /\ request = NoRequest
    /\ response = NoResponse
    /\ optimizer_pieces = NotCalled

\* the drawing ids of the requests: "d9" names no drawing
RequestDrawingIds == {"d1", "d2", "u1", "d9"}

\* the JSON bodies of the optimize requests: no body, a 4 x 3 sheet with a
\* kerf of 1, a 2 x 1 sheet with no kerf, a sheet without width, a negative
\* kerf
OptimizeData ==
    { <<>>,
      [sheet_width |-> 4, sheet_height |-> 3, blade_width |-> 1],
      [sheet_width |-> 2, sheet_height |-> 1, blade_width |-> 0],
      [sheet_width |-> 0, sheet_height |-> 3, blade_width |-> 1],
      [sheet_width |-> 4, sheet_height |-> 3, blade_width |-> -1] }

\* data.get(key, default)
Get(data, key, default) == IF key \in DOMAIN data THEN data[key] ELSE default

\* lines 267-269
SheetConfig(data) ==
    [sheet_width |-> Get(data, "sheet_width", DEFAULT_SHEET_WIDTH),
     sheet_height |-> Get(data, "sheet_height", DEFAULT_SHEET_HEIGHT),
     blade_width |-> Get(data, "blade_width", DEFAULT_BLADE_WIDTH)]

\* a store that keeps a result the drawing already has
StoreResult_KeepFirst(drawing, result, now) ==
    IF drawing.optimization_result = NullResult
    THEN [drawing EXCEPT !.optimization_result = result, !.updated_at = now]
    ELSE [drawing EXCEPT !.updated_at = now]

\* a store that updates the fields of the stored result one by one and
\* leaves sheets_used as it finds it
StoreResult_Partial(drawing, result, now) ==
    IF drawing.optimization_result.kind = "ok" /\ result.kind = "ok"
    THEN [drawing EXCEPT !.optimization_result =
                             [result EXCEPT !.sheets_used =
                                                drawing.optimization_result.sheets_used],
                         !.updated_at = now]
    ELSE [drawing EXCEPT !.optimization_result = result, !.updated_at = now]

\* lines 298-299: the result and the time assigned to the drawing
StoreResult(drawing, result, now) ==
    [drawing EXCEPT !.optimization_result = result, !.updated_at = now]

\* a handler that sends an empty cutting list on to the optimizer
NoCuttingList_Never(cutting_items) == FALSE

\* line 274: if not cutting_items
NoCuttingList(cutting_items) == cutting_items = <<>>

\* POST /api/drawing-analyser/<drawing_id>/optimize; the request is kept with
\* the optimization_result of the drawing the query of line 257 loaded
optimize_nesting(tenant_id, drawing_id, data) ==
    LET gate == require_module("cutting_list_generator", tenant_id)
        found == DrawingsOf(drawings, drawing_id, tenant_id)
        cutting_items == ItemsOf(cutting_lists, drawing_id)
        pieces == BuildPieces(cutting_items)
        result == optimize(pieces, SheetConfig(data))
    IN  /\ requests < MaxRequests
        /\ requests' = requests + 1
        /\ request' = [op |-> "optimize", tenant_id |-> tenant_id,
                       drawing_id |-> drawing_id, data |-> data,
                       loaded |-> {d.optimization_result : d \in found}]
        /\ UNCHANGED <<parse_vars, sessions, form_vars, auth_vars, opt_vars, cutting_lists, files, issued>>
        /\ IF gate # Pass
           THEN /\ response' = gate
                /\ optimizer_pieces' = NotCalled
                /\ UNCHANGED drawings
           ELSE IF found = {}
           THEN /\ response' = Response(404, "Drawing not found", NoBody)
                /\ optimizer_pieces' = NotCalled
                /\ UNCHANGED drawings
           ELSE IF NoCuttingList(cutting_items)
           THEN /\ response' = Response(404, "No cutting list found", NoBody)
                /\ optimizer_pieces' = NotCalled
                /\ UNCHANGED drawings
           ELSE IF RangeRaises(cutting_items)
           THEN /\ response' = Unhandled("TypeError")
                /\ optimizer_pieces' = NotCalled
                /\ UNCHANGED drawings
           ELSE IF ~InvalidConfig(SheetConfig(data)) /\ OptimizerRaises(pieces)
           THEN /\ response' = Unhandled("TypeError")
                /\ optimizer_pieces' = [called |-> TRUE, pieces |-> pieces]
                /\ UNCHANGED drawings
           ELSE /\ response' = Response(200, "", result)
                /\ optimizer_pieces' = [called |-> TRUE, pieces |-> pieces]
                /\ drawings' = (drawings \ found) \cup
                       {StoreResult(d, result, requests + 1) : d \in found}

Optimize ==
    \E tenant_id \in HeaderTenants, drawing_id \in RequestDrawingIds, data \in OptimizeData :
        optimize_nesting(tenant_id, drawing_id, data)

\* one optimize request of tenant t1 for its drawing d1
OptimizeOnce ==
    /\ requests = 0
    /\ \E data \in OptimizeData : optimize_nesting("t1", "d1", data)

\* drawing d1 has any cutting list of up to two rows
\* the row ("BASE", "Base Unit 600", 600, 600, 720, 4, 18, None)
BaseUnit600 ==
    [Row("d1", 1, [component_width |-> IntValue(600), height |-> IntValue(720),
                   quantity |-> IntValue(4)])
        EXCEPT !.component_type = <<"B", "A", "S", "E">>,
               !.part_name = <<"B", "a", "s", "e", " ", "U", "n", "i", "t", " ",
                               "6", "0", "0">>,
               !.overall_unit_width = IntValue(600),
               !.material_thickness = IntValue(18)]

\* drawing d1 has up to two rows of small dimensions, or the row above
InitOptimize ==
    /\ InitDb(RowLists("d1", 2) \cup {<<BaseUnit600>>})
    /\ ConcIdle
    /\ FormIdle
    /\ AuthIdle

SpecOptimize == InitOptimize /\ [][OptimizeOnce]_vars

\* ---- Spec: every handler, on a database whose drawing d1 has at most one row ----

Header == <<<<"T">>, <<"N">>, <<"W">>, <<"C">>, <<"H">>, <<"Q">>, <<"M">>, <<"E">>>>

\* data rows of the enumerated OCR tables: five cells, seven cells (the
\* dimension cell "900mm", the quantity cell "4 pcs"), eight cells
ShortRow == <<<<"B">>, <<"U">>, <<"9", "0", "0", "m", "m">>, <<"6">>, <<"7">>>>

SevenCells ==
    <<<<"B">>, <<"U">>, <<"9", "0", "0", "m", "m">>, <<"6">>, <<"7">>,
      <<"4", " ", "p", "c", "s">>, <<"1", "2", ".", "5">>>>

EightCells ==
    <<<<"G">>, <<"V">>, <<"N", "/", "A">>, <<"6">>, <<"7">>,
      <<"0">>, <<"1", "8">>, <<"e", "d", "g", "e">>>>

SampleRows == {ShortRow, SevenCells, EightCells}

\* the enumerated OCR tables: empty, the header alone, and the header with
\* one data row or with a short row before or after a longer one
SampleTables ==
    { <<>>, <<Header>>, <<Header, ShortRow>>, <<Header, SevenCells>>,
      <<Header, EightCells>>, <<Header, ShortRow, EightCells>>,
      <<Header, SevenCells, ShortRow>> }

OcrRaised == [raises |-> TRUE, success |-> FALSE, has_table |-> FALSE, table_data |-> <<>>]

\* what ocr_extractor.extract_dimensions does: it raises, or returns a dict
\* with or without success and with or without table_data (a failed
\* extraction may still carry a table)
OcrOutcomes ==
    {OcrRaised}
    \cup [raises : {FALSE}, success : {TRUE}, has_table : {TRUE}, table_data : SampleTables]
    \cup [raises : {FALSE}, success : {FALSE}, has_table : {TRUE},
          table_data : {<<Header, SevenCells>>}]
    \cup [raises : {FALSE}, success : BOOLEAN, has_table : {FALSE}, table_data : {<<>>}]

\* the OCR service was not called
NoOcr == [raises |-> FALSE, success |-> FALSE, has_table |-> FALSE, table_data |-> <<"not called">>]

\* an upload as its handler saw it: the header, the file once the gate has
\* let the request pass, and what the OCR service answered once it was called
UploadRequest(tenant_id, file, ocr_result, new_id) ==
    [op |-> "upload", tenant_id |-> tenant_id, file |-> file,
     ocr_result |-> ocr_result, new_id |-> new_id]

\* a rollback that leaves the flushed objects in the table
rollback_KeepsAdded(committed, added) == committed \cup added

\* db.session.rollback(): the table without the objects the session added
rollback(committed, added) == committed

\* POST /api/drawing-analyser/upload
upload_drawing(tenant_id, file, ocr_result) ==
    LET gate == require_module("cutting_list_generator", tenant_id)
        new_id == UploadIds[issued + 1]
        drawing == Drawing(new_id, tenant_id,
                           IF ocr_result.success THEN "completed" ELSE "failed",
                           requests + 1)
        cutting_list_items ==
            IF ocr_result.success /\ ocr_result.has_table /\ ocr_result.table_data # <<>>
            THEN CuttingItems(ocr_result.table_data, new_id, 2)
            ELSE <<>>
    IN  /\ requests < MaxRequests
        /\ issued < Len(UploadIds)
        /\ requests' = requests + 1
        /\ optimizer_pieces' = NotCalled
        /\ UNCHANGED <<parse_vars, sessions, form_vars, auth_vars, opt_vars>>
        /\ IF gate # Pass
           THEN /\ response' = gate
                /\ request' = UploadRequest(tenant_id, NoFile, NoOcr, "")
                /\ UNCHANGED <<db_vars, files, issued>>
           ELSE IF ~file.present
           THEN /\ response' = Response(400, "No file provided", NoBody)
                /\ request' = UploadRequest(tenant_id, file, NoOcr, "")
                /\ UNCHANGED <<db_vars, files, issued>>
           ELSE IF file.stem = "" /\ ~file.has_dot
           THEN /\ response' = Response(400, "No file selected", NoBody)
                /\ request' = UploadRequest(tenant_id, file, NoOcr, "")
                /\ UNCHANGED <<db_vars, files, issued>>
           ELSE IF ~allowed_file(file)
           THEN /\ response' = Response(400, "Invalid file type", NoBody)
                /\ request' = UploadRequest(tenant_id, file, NoOcr, "")
                /\ UNCHANGED <<db_vars, files, issued>>
           ELSE /\ request' = UploadRequest(tenant_id, file, ocr_result, new_id)
                /\ issued' = issued + 1
                /\ files' = files \cup {FilePath(new_id)}
                /\ IF ocr_result.raises \/ cutting_list_items = <<NameError>>
                   THEN \* except Exception: db.session.rollback()
                        /\ response' = Response(500, "str(e)", NoBody)
                        /\ drawings' = rollback(drawings,
                                          IF ocr_result.raises THEN {} ELSE {drawing})
                        /\ UNCHANGED cutting_lists
                   ELSE /\ drawings' = drawings \cup {drawing}
                        /\ cutting_lists' = cutting_lists \o cutting_list_items
                        /\ response' = Response(201, "",
                               [kind |-> "upload", drawing_id |-> new_id,
                                status |-> drawing.status,
                                cutting_list |-> cutting_list_items])

\* the file passes the checks made before it is saved
Accepted(file) ==
    file.present /\ ~(file.stem = "" /\ ~file.has_dot) /\ allowed_file(file)

\* the handler reads the file only behind the gate, and calls the OCR
\* service only on an accepted file
Upload ==
    \E tenant_id \in HeaderTenants :
        IF require_module("cutting_list_generator", tenant_id) # Pass
        THEN upload_drawing(tenant_id, NoFile, NoOcr)
        ELSE \E file \in UploadFiles :
                IF ~Accepted(file)
                THEN upload_drawing(tenant_id, file, NoOcr)
                ELSE \E ocr_result \in OcrOutcomes :
                        upload_drawing(tenant_id, file, ocr_result)

RECURSIVE SumQuantity(_)
\* sum(item.quantity for item in self.cutting_list), no quantity None
SumQuantity(items) ==
    IF items = <<>> THEN 0 ELSE Head(items).quantity.num + SumQuantity(Tail(items))

\* x or 0, for a nullable Integer column
OrZero(v) == IF v = None THEN 0 ELSE v.num

\* CuttingList.to_dict: the row with its area_mm2
ItemDict(item) ==
    [id |-> item.id, drawing_id |-> item.drawing_id, part_name |-> item.part_name,
     component_width |-> item.component_width, height |-> item.height,
     quantity |-> item.quantity,
     area_mm2 |-> OrZero(item.component_width) * OrZero(item.height)]

RECURSIVE TotalMm2(_)
\* total_mm2 of Drawing._calculate_total_area
TotalMm2(items) ==
    IF items = <<>> THEN 0
    ELSE OrZero(Head(items).component_width) * OrZero(Head(items).height)
                * OrZero(Head(items).quantity)
             + TotalMm2(Tail(items))

\* round(n / unit, ...) as a count of units: the nearest count; at an exact
\* half the binary value of the quotient decides (round(0.015, 2) is 0.01,
\* round(0.025, 2) is 0.03), so either neighbour may come out
Rounded(n, unit) ==
    IF 2 * (n % unit) < unit THEN {n \div unit}
    ELSE IF 2 * (n % unit) > unit THEN {n \div unit + 1}
    ELSE {n \div unit, n \div unit + 1}

\* mm2 in a hundredth of a m2
MM2_PER_HUNDREDTH_M2 == 10000

\* GET /api/drawing-analyser/<drawing_id>
get_drawing(tenant_id, drawing_id) ==
    LET gate == require_module("cutting_list_generator", tenant_id)
        found == DrawingsOf(drawings, drawing_id, tenant_id)
        items == ItemsOf(cutting_lists, drawing_id)
    IN  /\ requests < MaxRequests
        /\ requests' = requests + 1
        /\ request' = [op |-> "get", tenant_id |-> tenant_id, drawing_id |-> drawing_id]
        /\ optimizer_pieces' = NotCalled
        /\ UNCHANGED <<parse_vars, sessions, form_vars, auth_vars, opt_vars, db_vars, files, issued>>
        /\ \E hundredths \in Rounded(TotalMm2(items), MM2_PER_HUNDREDTH_M2) :
             response' =
               IF gate # Pass THEN gate
               ELSE IF found = {} THEN Response(404, "Drawing not found", NoBody)
               ELSE IF RangeRaises(items) THEN Unhandled("TypeError")
               ELSE Response(200, "",
                        [kind |-> "drawing", drawing |-> CHOOSE d \in found : TRUE,
                         cutting_list |-> [i \in 1..Len(items) |-> ItemDict(items[i])],
                         total_pieces |-> SumQuantity(items),
                         total_area_m2 |-> FloatValue(hundredths, 100)])

GetDrawing ==
    \E tenant_id \in HeaderTenants, drawing_id \in RequestDrawingIds :
        get_drawing(tenant_id, drawing_id)

\* GET /api/drawing-analyser
list_drawings(tenant_id) ==
    LET gate == require_module("cutting_list_generator", tenant_id)
    IN  /\ requests < MaxRequests
        /\ requests' = requests + 1
        /\ request' = [op |-> "list", tenant_id |-> tenant_id]
        /\ optimizer_pieces' = NotCalled
        /\ UNCHANGED <<parse_vars, sessions, form_vars, auth_vars, opt_vars, db_vars, files, issued>>
        /\ response' =
            IF gate # Pass THEN gate
            ELSE Response(200, "",
                     [kind |-> "list",
                      drawings |-> {d \in drawings : d.tenant_id = tenant_id}])

ListDrawings == \E tenant_id \in HeaderTenants : list_drawings(tenant_id)

\* GET /api/drawing-analyser/<drawing_id>/preview
preview_drawing(tenant_id, drawing_id) ==
    LET gate == require_module("cutting_list_generator", tenant_id)
        found == DrawingsOf(drawings, drawing_id, tenant_id)
    IN  /\ requests < MaxRequests
        /\ requests' = requests + 1
        /\ request' = [op |-> "preview", tenant_id |-> tenant_id, drawing_id |-> drawing_id]
        /\ optimizer_pieces' = NotCalled
        /\ UNCHANGED <<parse_vars, sessions, form_vars, auth_vars, opt_vars, db_vars, files, issued>>
        /\ response' =
            IF gate # Pass THEN gate
            ELSE IF found = {} THEN Response(404, "Drawing not found", NoBody)
            ELSE IF \A d \in found : d.file_path \notin files
                 THEN Response(404, "File not found", NoBody)
                 ELSE Response(200, "",
                          [kind |-> "file", path |-> (CHOOSE d \in found : TRUE).file_path])

PreviewDrawing ==
    \E tenant_id \in HeaderTenants, drawing_id \in RequestDrawingIds :
        preview_drawing(tenant_id, drawing_id)

\* a delete that leaves the rows of the drawing in their table
CascadeDelete_KeepsRows(rows, drawing_id) == rows

\* cascade='all, delete-orphan', ondelete='CASCADE': the rows of the deleted
\* drawing go with it
CascadeDelete(rows, drawing_id) ==
    SelectSeq(rows, LAMBDA item : item.drawing_id # drawing_id)

\* DELETE /api/drawing-analyser/<drawing_id>
delete_drawing(tenant_id, drawing_id) ==
    LET gate == require_module("cutting_list_generator", tenant_id)
        found == DrawingsOf(drawings, drawing_id, tenant_id)
    IN  /\ requests < MaxRequests
        /\ requests' = requests + 1
        /\ request' = [op |-> "delete", tenant_id |-> tenant_id, drawing_id |-> drawing_id]
        /\ optimizer_pieces' = NotCalled
        /\ UNCHANGED <<parse_vars, sessions, form_vars, auth_vars, opt_vars, issued>>
        /\ IF gate # Pass
           THEN response' = gate /\ UNCHANGED <<db_vars, files>>
           ELSE IF found = {}
           THEN /\ response' = Response(404, "Drawing not found", NoBody)
                /\ UNCHANGED <<db_vars, files>>
           ELSE /\ files' = files \ {d.file_path : d \in found}
                /\ drawings' = drawings \ found
                /\ cutting_lists' = CascadeDelete(cutting_lists, drawing_id)
                /\ response' = Response(200, "", [kind |-> "deleted"])

DeleteDrawing ==
    \E tenant_id \in HeaderTenants, drawing_id \in RequestDrawingIds :
        delete_drawing(tenant_id, drawing_id)

\* the rows drawing d1 may start with: a valid row of MaxQty pieces, a row
\* without a width, a row without a quantity
FewKinds ==
    { [component_width |-> IntValue(1), height |-> IntValue(MaxDim),
       quantity |-> IntValue(MaxQty)],
      [component_width |-> None, height |-> IntValue(1), quantity |-> IntValue(1)],
      [component_width |-> IntValue(1), height |-> IntValue(1), quantity |-> None] }

\* drawing d1 has no row or one of these rows
Init ==
    /\ InitDb({<<>>} \cup {<<Row("d1", 1, k)>> : k \in FewKinds})
    /\ ConcIdle
    /\ FormIdle
    /\ AuthIdle

Next ==
    \/ Upload
    \/ GetDrawing
    \/ ListDrawings
    \/ PreviewDrawing
    \/ Optimize
    \/ DeleteDrawing

Spec == Init /\ [][Next]_vars

\* ---- SpecArea: one get request on drawing d1 with rows at full size ----

AreaDims == {None, IntValue(0), IntValue(50), IntValue(100), IntValue(720), IntValue(1000)}

AreaQuantities == {None, IntValue(1), IntValue(4)}

AreaKinds == [component_width : AreaDims, height : AreaDims, quantity : AreaQuantities]

\* drawing d1 has no row, one row or two rows
InitArea ==
    /\ InitDb(UNION {{[i \in 1..m |-> Row("d1", i, ks[i])] : ks \in [1..m -> AreaKinds]}
                     : m \in 0..2})
    /\ ConcIdle
    /\ FormIdle
    /\ AuthIdle

GetOnce == requests = 0 /\ get_drawing("t1", "d1")

SpecArea == InitArea /\ [][GetOnce]_vars

\* ---- SpecConcurrent: two optimize requests, each on drawing d1 or on ----
\* ---- drawing d2, step by step                                        ----

SessionIds == {1, 2}

\* a request that has not begun
NewSession(tenant_id, drawing_id, data) ==
    [pc |-> "start", tenant_id |-> tenant_id, drawing_id |-> drawing_id, data |-> data,
     loaded |-> {}, result |-> NoResult, response |-> NoResponse]

\* lines 257-263: the drawing is loaded into the request's session
Query(s) ==
    LET me == sessions[s]
        found == DrawingsOf(drawings, me.drawing_id, me.tenant_id)
    IN  /\ me.pc = "start"
        /\ sessions' = [sessions EXCEPT ![s] =
               IF found = {}
               THEN [me EXCEPT !.pc = "done",
                               !.response = Response(404, "Drawing not found", NoBody)]
               ELSE [me EXCEPT !.pc = "loaded", !.loaded = found]]
        /\ UNCHANGED <<parse_vars, form_vars, auth_vars, opt_vars, app_vars>>

\* lines 265-295: the cutting list is read, expanded and optimized
Compute(s) ==
    LET me == sessions[s]
        cutting_items == ItemsOf(cutting_lists, me.drawing_id)
        pieces == BuildPieces(cutting_items)
    IN  /\ me.pc = "loaded"
        /\ sessions' = [sessions EXCEPT ![s] =
               IF NoCuttingList(cutting_items)
               THEN [me EXCEPT !.pc = "done",
                               !.response = Response(404, "No cutting list found", NoBody)]
               ELSE IF \/ RangeRaises(cutting_items)
                       \/ ~InvalidConfig(SheetConfig(me.data)) /\ OptimizerRaises(pieces)
               THEN [me EXCEPT !.pc = "done", !.response = Unhandled("TypeError")]
               ELSE [me EXCEPT !.pc = "computed",
                               !.result = optimize(pieces, SheetConfig(me.data))]]
        /\ UNCHANGED <<parse_vars, form_vars, auth_vars, opt_vars, app_vars>>

\* a commit that writes the result to every drawing
Commit_AllDrawings(s) ==
    LET me == sessions[s]
    IN  /\ me.pc = "computed"
        /\ drawings' = {StoreResult(d, me.result, requests + 1) : d \in drawings}
        /\ requests' = requests + 1
        /\ sessions' = [sessions EXCEPT ![s] =
               [me EXCEPT !.pc = "done", !.response = Response(200, "", me.result)]]
        /\ UNCHANGED <<parse_vars, form_vars, auth_vars, opt_vars, cutting_lists, files, issued,
                       request, response, optimizer_pieces>>

\* lines 298-302: the result is assigned to the loaded drawing and the
\* commit writes the columns assigned to the row of that id
Commit(s) ==
    LET me == sessions[s]
        rows == {d \in drawings : d.id \in {l.id : l \in me.loaded}}
    IN  /\ me.pc = "computed"
        /\ drawings' = (drawings \ rows) \cup
               {StoreResult(d, me.result, requests + 1) : d \in rows}
        /\ requests' = requests + 1
        /\ sessions' = [sessions EXCEPT ![s] =
               [me EXCEPT !.pc = "done", !.response = Response(200, "", me.result)]]
        /\ UNCHANGED <<parse_vars, form_vars, auth_vars, opt_vars, cutting_lists, files, issued,
                       request, response, optimizer_pieces>>

InitConcurrent ==
    /\ InitDb({<<Row("d1", 1, k)>> : k \in FewKinds})
    /\ FormIdle
    /\ AuthIdle
    /\ sessions \in [SessionIds ->
                        {NewSession("t1", "d1", data) : data \in OptimizeData}
                        \cup {NewSession("t2", "d2", data) : data \in OptimizeData}]

NextConcurrent ==
    \/ \E s \in SessionIds : Query(s)
    \/ \E s \in SessionIds : Compute(s)
    \/ \E s \in SessionIds : Commit(s)

SpecConcurrent == InitConcurrent /\ [][NextConcurrent]_vars

(***************************************************************************)
(* SpecForm: routes/form_routes.py.  The tokens live in the dict           *)
(* form_tokens of the server process; the handlers of two threads          *)
(* interleave where a handler waits for the database.                      *)
(***************************************************************************)
MaxTokens == 2

MaxSubmits == 2

MaxFormClock == 2

\* timedelta(hours=24), in days
TOKEN_LIFETIME == 1

\* the values generate_secure_token returns, one per call
FormTokenIds == <<"k1", "k2", "k3">>

\* a token no endpoint generated
UnknownToken == "zz"

\* data.get('token') of a body without a token
NoToken == ""

\* token_data.get('customer_id') of a token without the key
NoCustomerId == ""

\* the customers table holds customer c1; c9 is the id of no customer
KnownCustomers == {"c1"}

\* the ids the database gives to new customers
NewCustomerIds == <<"n1", "n2", "n3">>

SubmitThreads == {1, 2}

TokenData(customer_id, now) ==
    [customer_id |-> customer_id, used |-> FALSE, expires_at |-> now + TOKEN_LIFETIME]

\* del form_tokens[token]
Without(tokens, token) == [k \in DOMAIN tokens \ {token} |-> tokens[k]]

\* datetime.now() > token_data['expires_at']
Expired(token_data, now) == now > token_data.expires_at

\* the formData of a submit request: none, one naming customer c1 or c9,
\* one with customer_name and customer_address, one with neither
FormData(empty, customer_id, named) ==
    [empty |-> empty, customer_id |-> customer_id, named |-> named]

EmptyForm == FormData(TRUE, NoCustomerId, FALSE)

\* the bodies of the submit requests
SubmitBodies ==
    {[token |-> NoToken, form_data |-> EmptyForm],
     [token |-> UnknownToken, form_data |-> FormData(FALSE, "c1", FALSE)],
     [token |-> NoToken, form_data |-> FormData(FALSE, "c1", FALSE)],
     [token |-> NoToken, form_data |-> FormData(FALSE, "c9", FALSE)]}
    \cup [token : {NoToken} \cup {FormTokenIds[i] : i \in 1..MaxTokens},
          form_data : {FormData(FALSE, NoCustomerId, TRUE),
                       FormData(FALSE, NoCustomerId, FALSE)}]

IdleSubmit ==
    [pc |-> "idle", token |-> NoToken, form_data |-> EmptyForm,
     customer_id |-> NoCustomerId, response |-> NoResponse]

FormRequest(op, token, answer) == [op |-> op, token |-> token, response |-> answer]

\* POST /customers/<customer_id>/generate-form-link
generate_customer_form_link(customer_id) ==
    LET token == FormTokenIds[form_counts.tokens + 1]
    IN  /\ form_counts.tokens < MaxTokens
        /\ UNCHANGED <<customers, form_rows, submits, form_clock, form_last>>
        /\ IF customer_id \notin customers
           THEN \* 404 'Customer not found'
                UNCHANGED <<form_tokens, form_counts>>
           ELSE /\ form_tokens' = form_tokens @@ (token :> TokenData(customer_id, form_clock))
                /\ form_counts' = [form_counts EXCEPT !.tokens = @ + 1]

\* POST /generate-form-link: a token tied to no customer
generate_form_link ==
    LET token == FormTokenIds[form_counts.tokens + 1]
    IN  /\ form_counts.tokens < MaxTokens
        /\ form_tokens' = form_tokens @@ (token :> TokenData(NoCustomerId, form_clock))
        /\ form_counts' = [form_counts EXCEPT !.tokens = @ + 1]
        /\ UNCHANGED <<customers, form_rows, submits, form_clock, form_last>>

\* GET /validate-form-token/<token>
validate_form_token(token) ==
    /\ UNCHANGED <<customers, form_rows, submits, form_clock, form_counts>>
    /\ IF token \notin DOMAIN form_tokens
       THEN /\ form_last' = FormRequest("validate", token,
                                        Response(404, "Invalid token", NoBody))
            /\ UNCHANGED form_tokens
       ELSE IF Expired(form_tokens[token], form_clock)
       THEN /\ form_tokens' = Without(form_tokens, token)
            /\ form_last' = FormRequest("validate", token,
                                        Response(410, "Token has expired", NoBody))
       ELSE IF form_tokens[token].used
       THEN /\ form_last' = FormRequest("validate", token,
                                        Response(410, "Token has already been used", NoBody))
            /\ UNCHANGED form_tokens
       ELSE /\ form_last' = FormRequest("validate", token, Response(200, "", NoBody))
            /\ UNCHANGED form_tokens

\* POST /cleanup-expired-tokens
cleanup_expired_tokens ==
    LET expired_tokens == {k \in DOMAIN form_tokens : Expired(form_tokens[k], form_clock)}
    IN  /\ form_tokens' = [k \in DOMAIN form_tokens \ expired_tokens |-> form_tokens[k]]
        /\ UNCHANGED <<customers, form_rows, submits, form_clock, form_counts, form_last>>

\* the thread's request ends with this answer
Answered(me, answer) == [me EXCEPT !.pc = "done", !.response = answer]

\* submit_customer_form, lines 101-124: the body is read and the token is
\* looked up and tested
SubmitReceive(s, body) ==
    LET me == [IdleSubmit EXCEPT !.token = body.token, !.form_data = body.form_data]
        token == body.token
    IN  /\ submits[s].pc \in {"idle", "done"}
        /\ form_counts.submits < MaxSubmits
        /\ form_counts' = [form_counts EXCEPT !.submits = @ + 1]
        /\ UNCHANGED <<customers, form_rows, form_clock, form_last>>
        /\ IF body.form_data.empty
           THEN /\ submits' = [submits EXCEPT ![s] =
                       Answered(me, Response(400, "Missing form data", NoBody))]
                /\ UNCHANGED form_tokens
           ELSE IF token = NoToken
           THEN /\ submits' = [submits EXCEPT ![s] = [me EXCEPT !.pc = "no customer"]]
                /\ UNCHANGED form_tokens
           ELSE IF token \notin DOMAIN form_tokens
           THEN /\ submits' = [submits EXCEPT ![s] =
                       Answered(me, Response(400, "Invalid or expired token", NoBody))]
                /\ UNCHANGED form_tokens
           ELSE IF Expired(form_tokens[token], form_clock)
           THEN /\ form_tokens' = Without(form_tokens, token)
                /\ submits' = [submits EXCEPT ![s] =
                       Answered(me, Response(410, "Token has expired", NoBody))]
           ELSE IF form_tokens[token].used
           THEN /\ submits' = [submits EXCEPT ![s] =
                       Answered(me, Response(410, "Token has already been used", NoBody))]
                /\ UNCHANGED form_tokens
           ELSE /\ submits' = [submits EXCEPT ![s] =
                       [me EXCEPT !.customer_id = form_tokens[token].customer_id,
                                  !.pc = IF form_tokens[token].customer_id = NoCustomerId
                                         THEN "no customer" ELSE "tested"]]
                /\ UNCHANGED form_tokens

\* form_tokens[token]['used'] = True
MarkUsed(tokens, token) == [tokens EXCEPT ![token].used = TRUE]

\* lines 126-135: the customer of the token is read from the database, then
\* the token is marked as used
SubmitMark(s) ==
    LET me == submits[s]
    IN  /\ me.pc = "tested"
        /\ UNCHANGED <<customers, form_rows, form_clock, form_counts, form_last>>
        /\ IF me.customer_id \notin customers
           THEN /\ submits' = [submits EXCEPT ![s] =
                       Answered(me, Response(404, "Associated customer not found", NoBody))]
                /\ UNCHANGED form_tokens
           ELSE IF me.token \notin DOMAIN form_tokens
           THEN \* KeyError, caught at line 189
                /\ submits' = [submits EXCEPT ![s] =
                       Answered(me, Response(500, "Form submission failed", NoBody))]
                /\ UNCHANGED form_tokens
           ELSE /\ form_tokens' = MarkUsed(form_tokens, me.token)
                /\ submits' = [submits EXCEPT ![s] = [me EXCEPT !.pc = "customer"]]

\* CustomerFormData(customer_id=..., token_used=token or '')
FormRow(customer_id, token) == [customer_id |-> customer_id, token_used |-> token]

\* lines 138-187: without a customer from the token, the customer named in
\* the form data is looked up or a new one is created; then the one
\* submission record is added and committed
SubmitCreate(s) ==
    LET me == submits[s]
        given == me.form_data.customer_id
        new_id == NewCustomerIds[Cardinality(customers \ KnownCustomers) + 1]
        Created(id) ==
            /\ form_rows' = Append(form_rows, FormRow(id, me.token))
            /\ submits' = [submits EXCEPT ![s] =
                   Answered([me EXCEPT !.customer_id = id], Response(201, "", NoBody))]
    IN  /\ me.pc \in {"customer", "no customer"}
        /\ UNCHANGED <<form_tokens, form_clock, form_counts, form_last>>
        /\ IF me.pc = "customer"
           THEN Created(me.customer_id) /\ UNCHANGED customers
           ELSE IF given # NoCustomerId
           THEN IF given \in customers
                THEN Created(given) /\ UNCHANGED customers
                ELSE /\ submits' = [submits EXCEPT ![s] =
                            Answered(me, Response(404, "Specified customer not found", NoBody))]
                     /\ UNCHANGED <<customers, form_rows>>
           ELSE IF ~me.form_data.named
           THEN /\ submits' = [submits EXCEPT ![s] =
                       Answered(me, Response(400,
                           "Customer name and address are required for new customer creation",
                           NoBody))]
                /\ UNCHANGED <<customers, form_rows>>
           ELSE /\ customers' = customers \cup {new_id}
                /\ Created(new_id)

\* time passes
FormTick ==
    /\ form_clock < MaxFormClock
    /\ form_clock' = form_clock + 1
    /\ UNCHANGED <<form_tokens, customers, form_rows, submits, form_counts, form_last>>

FormFrame == UNCHANGED <<parse_vars, opt_vars, app_vars, sessions, auth_vars>>

InitForm ==
    /\ ParseIdle
    /\ OptIdle
    /\ AppIdle
    /\ ConcIdle
    /\ AuthIdle
    /\ form_tokens = <<>>
    /\ customers = KnownCustomers
    /\ form_rows = <<>>
    /\ submits = [s \in SubmitThreads |-> IdleSubmit]
    /\ form_clock = 0
    /\ form_counts = [tokens |-> 0, submits |-> 0]
    /\ form_last = NoRequest

NextForm ==
    \/ (\E customer_id \in {"c1", "c9"} : generate_customer_form_link(customer_id)) /\ FormFrame
    \/ generate_form_link /\ FormFrame
    \/ (\E token \in {FormTokenIds[i] : i \in 1..MaxTokens} \cup {UnknownToken} :
            validate_form_token(token)) /\ FormFrame
    \/ cleanup_expired_tokens /\ FormFrame
    \/ (\E s \in SubmitThreads, body \in SubmitBodies : SubmitReceive(s, body)) /\ FormFrame
    \/ (\E s \in SubmitThreads : SubmitMark(s)) /\ FormFrame
    \/ (\E s \in SubmitThreads : SubmitCreate(s)) /\ FormFrame
    \/ FormTick /\ FormFrame

SpecForm == InitForm /\ [][NextForm]_vars

(***************************************************************************)
(* SpecLogin: POST /api/auth/login of routes/auth_routes.py, one request   *)
(* at a time, with the clock in units of 5 minutes.                        *)
(***************************************************************************)
MaxLogins == 6

MaxAuthClock == 3

\* check_rate_limit(email, max_attempts=5, ...)
MAX_ATTEMPTS == 5

\* window_minutes=15, in units of 5 minutes
WINDOW == 3

\* the characters of the enumerated emails that str.lower changes
LowerChar(ch) == IF ch = "A" THEN "a" ELSE IF ch = "X" THEN "x" ELSE ch

RECURSIVE LStrip(_)
LStrip(s) == IF s # <<>> /\ Head(s) = " " THEN LStrip(Tail(s)) ELSE s

RECURSIVE RStrip(_)
RStrip(s) ==
    IF s # <<>> /\ s[Len(s)] = " " THEN RStrip(SubSeq(s, 1, Len(s) - 1)) ELSE s

\* data['email'].lower().strip()
NormalizeEmail(email) == RStrip(LStrip([i \in 1..Len(email) |-> LowerChar(email[i])]))

\* the email of the one user, and an email of no user
UserEmail == <<"a", "@", "x">>

OtherEmail == <<"b", "@", "x">>

\* the user's email in capitals after a blank
SpelledEmail == <<" ", "A", "@", "X">>

\* the bodies of the login requests: the user's email with the user's
\* password, with another one and with none, the email spelled differently,
\* no email
LoginBodies ==
    {[email |-> UserEmail, password |-> "right"],
     [email |-> UserEmail, password |-> "wrong"],
     [email |-> UserEmail, password |-> ""],
     [email |-> SpelledEmail, password |-> "right"],
     [email |-> <<>>, password |-> "right"]}

\* LoginAttempt(email=email, ip_address=ip_address, success=success)
LoginAttempt(email, success, now) ==
    [email |-> email, success |-> success, attempted_at |-> now]

\* the failed attempts for the email after the cutoff time
RecentFailures(email, attempts, now) ==
    {i \in 1..Len(attempts) :
        /\ attempts[i].email = email
        /\ attempts[i].attempted_at > now - WINDOW
        /\ ~attempts[i].success}

\* a limit that counts the failed attempts of all time
check_rate_limit_NoWindow(email, attempts, now) ==
    Cardinality({i \in 1..Len(attempts) :
                    attempts[i].email = email /\ ~attempts[i].success}) < MAX_ATTEMPTS

\* check_rate_limit(email): TRUE when the request may go on
check_rate_limit(email, attempts, now) ==
    Cardinality(RecentFailures(email, attempts, now)) < MAX_ATTEMPTS

LoginRequest(email, password, status, error) ==
    [op |-> "login", email |-> email, password |-> password,
     status |-> status, error |-> error]

\* POST /api/auth/login
login(raw_email, password) ==
    LET email == NormalizeEmail(raw_email)
        Failed(status, error) ==
            /\ login_attempts' = Append(login_attempts, LoginAttempt(email, FALSE, auth_clock))
            /\ login_last' = LoginRequest(raw_email, password, status, error)
            /\ UNCHANGED user_sessions
    IN  /\ logins < MaxLogins
        /\ logins' = logins + 1
        /\ UNCHANGED <<users, auth_clock>>
        /\ IF raw_email = <<>> \/ password = ""
           THEN /\ login_last' = LoginRequest(raw_email, password, 400,
                                              "Email and password are required")
                /\ UNCHANGED <<login_attempts, user_sessions>>
           ELSE IF ~check_rate_limit(email, login_attempts, auth_clock)
           THEN /\ login_last' = LoginRequest(raw_email, password, 429,
                                     "Too many failed login attempts. Try again later.")
                /\ UNCHANGED <<login_attempts, user_sessions>>
           ELSE IF email \notin DOMAIN users \/ users[email].password # password
           THEN Failed(401, "Invalid email or password")
           ELSE IF ~users[email].is_active
           THEN Failed(401, "Account is disabled")
           ELSE IF users[email].tenant = "missing"
           THEN Failed(404, "Tenant not found")
           ELSE IF users[email].tenant = "inactive"
           THEN Failed(403, "Tenant account is inactive")
           ELSE /\ user_sessions' = Append(user_sessions,
                                           [email |-> email, created_at |-> auth_clock])
                /\ login_attempts' = Append(login_attempts,
                                            LoginAttempt(email, TRUE, auth_clock))
                /\ login_last' = LoginRequest(raw_email, password, 200, "")

Login == \E data \in LoginBodies : login(data.email, data.password)

\* time passes
AuthTick ==
    /\ auth_clock < MaxAuthClock
    /\ auth_clock' = auth_clock + 1
    /\ UNCHANGED <<users, login_attempts, user_sessions, logins, login_last>>

AuthFrame == UNCHANGED <<parse_vars, opt_vars, app_vars, sessions, form_vars>>

\* the user's account: in order, disabled, of an inactive tenant, of no tenant
Accounts ==
    {[password |-> "right", is_active |-> TRUE, tenant |-> "active"],
     [password |-> "right", is_active |-> FALSE, tenant |-> "active"],
     [password |-> "right", is_active |-> TRUE, tenant |-> "inactive"],
     [password |-> "right", is_active |-> TRUE, tenant |-> "missing"]}

\* the attempts logged so far: MAX_ATTEMPTS failures for the other email at
\* the current time
InitLogin ==
    /\ ParseIdle
    /\ OptIdle
    /\ AppIdle
    /\ ConcIdle
    /\ FormIdle
    /\ users \in {UserEmail :> account : account \in Accounts}
    /\ login_attempts = [i \in 1..MAX_ATTEMPTS |-> LoginAttempt(OtherEmail, FALSE, 0)]
    /\ user_sessions = <<>>
    /\ auth_clock = 0
    /\ logins = 0
    /\ login_last = NoRequest

NextLogin ==
    \/ Login /\ AuthFrame
    \/ AuthTick /\ AuthFrame

SpecLogin == InitLogin /\ [][NextLogin]_vars

(***************************************************************************)
(* Claims about the cell parsers (checked under SpecParse).               *)
(***************************************************************************)

\* C8: for every input, _parse_quantity returns an integer >= 1; it never
\* returns zero or a negative number.
C8_QuantityAtLeastOne ==
    quantity # Unset => quantity.kind = "int" /\ quantity.num >= 1

\* the value a string of the characters 0..9 denotes, by position
RECURSIVE C9_Positional(_, _)
C9_Positional(c, i) ==
    IF i > Len(c) THEN 0
    ELSE DigitVal(c[i]) * Pow10(Len(c) - i) + C9_Positional(c, i + 1)

C9_Dots(c) == {i \in 1..Len(c) : c[i] = "."}

C9_Digits(c) == {i \in 1..Len(c) : c[i] # "."}

C9_WithoutDot(c) == Filter(c, CharsOf(c) \ {"."})

C9_AsNumber(c, r) ==
    IF C9_Dots(c) = {}
    THEN r.kind = "int" /\ r.num = C9_Positional(c, 1)
    ELSE /\ r.kind = "float"
         /\ LET after == Len(c) - (CHOOSE i \in C9_Dots(c) : TRUE)
            IN  r.num * Pow10(after) = r.den * C9_Positional(C9_WithoutDot(c), 1)

C9_ExamplesHold ==
    /\ value = <<"9", "0", "0", "m", "m">> => dimension = IntValue(900)
    /\ value = <<"1", "2", ".", "5">> =>
           dimension.kind = "float" /\ dimension.num * 10 = dimension.den * 125
    /\ value \in {<<"N", "/", "A">>, <<>>} => dimension = None

\* C9 as stated: with c the input reduced to the digits 0..9 and decimal
\* points, _parse_dimension returns None when c is empty, has no digit or
\* has more than one point, the integer value of c when c has no point,
\* and the decimal value of c otherwise.
C9_DimensionOfDecimalDigits ==
    dimension # Unset =>
        LET c == Filter(value, DecimalDigits \cup {"."})
        IN  /\ IF C9_Digits(c) = {} \/ Cardinality(C9_Dots(c)) > 1
               THEN dimension = None
               ELSE C9_AsNumber(c, dimension)
            /\ C9_ExamplesHold

\* C9 amended: with c the input reduced to the characters str.isdigit
\* accepts and decimal points, _parse_dimension returns None when c is
\* empty, has no digit, has more than one point or holds a digit character
\* that is no decimal digit (such as U+00B2); otherwise the integer value of
\* c when c has no point and the decimal value of c when it has one.
C9_DimensionParsed ==
    dimension # Unset =>
        LET c == Filter(value, DecimalDigits \cup {"sup2", "."})
        IN  /\ IF \/ C9_Digits(c) = {}
                  \/ Cardinality(C9_Dots(c)) > 1
                  \/ \E i \in 1..Len(c) : c[i] = "sup2"
               THEN dimension = None
               ELSE C9_AsNumber(c, dimension)
            /\ C9_ExamplesHold

\* C9 witness: "12.5" has been parsed to the decimal value 12.5
C9_Witness ==
    value = <<"1", "2", ".", "5">> /\ dimension = FloatValue(125, 10)


(***************************************************************************)
(* Claims about NestingOptimizer.optimize (checked under SpecOpt).         *)
(***************************************************************************)

Placed == {run.placements[i] : i \in 1..Len(run.placements)}

C1_Apart(a, b) ==
    \/ a.x + PlacedWidth(a) + opt_input.blade_width <= b.x
    \/ b.x + PlacedWidth(b) + opt_input.blade_width <= a.x
    \/ a.y + PlacedHeight(a) + opt_input.blade_width <= b.y
    \/ b.y + PlacedHeight(b) + opt_input.blade_width <= a.y

\* C1: any two placements on one sheet are separated by at least blade_width
\* along x or along y (their kerf-expanded rectangles do not intersect).
C1_NoOverlap ==
    \A i, j \in 1..Len(run.placements) :
        (i < j /\ run.placements[i].sheet_index = run.placements[j].sheet_index)
            => C1_Apart(run.placements[i], run.placements[j])

\* C1 witness: a finished layout with two pieces side by side on one sheet,
\* exactly one kerf > 0 apart
C1_Witness ==
    /\ run.status = "done"
    /\ opt_input.blade_width > 0
    /\ \E a, b \in Placed :
        /\ a.inst # b.inst
        /\ a.sheet_index = b.sheet_index
        /\ a.y = b.y
        /\ b.x = a.x + PlacedWidth(a) + opt_input.blade_width

\* C2: every placement, in its placed orientation, lies within the sheet.
C2_Containment ==
    \A pl \in Placed :
        /\ 0 <= pl.x
        /\ 0 <= pl.y
        /\ pl.x + PlacedWidth(pl) <= opt_input.sheet_width
        /\ pl.y + PlacedHeight(pl) <= opt_input.sheet_height

\* C2 witness: a finished layout holding a rotated piece that reaches the
\* sheet's right edge
C2_Witness ==
    /\ run.status = "done"
    /\ \E pl \in Placed :
        /\ pl.rotated
        /\ pl.x + PlacedWidth(pl) = opt_input.sheet_width

C3_AllFit ==
    \A i \in 1..Len(opt_input.pieces) :
        \/ /\ opt_input.pieces[i].width <= opt_input.sheet_width
           /\ opt_input.pieces[i].height <= opt_input.sheet_height
        \/ /\ opt_input.pieces[i].height <= opt_input.sheet_width
           /\ opt_input.pieces[i].width <= opt_input.sheet_height

\* C3: when every piece fits the sheet in some orientation, the call never
\* fails, every turn of the loop places one more instance (so the loop ends
\* after as many turns as there are instances), and in the result every
\* instance has exactly one placement.
C3_Completeness ==
    (C3_AllFit /\ run.status # "idle") =>
        /\ run.status \in {"running", "done"}
        /\ run.status = "running" =>
               run.queue # <<>> /\ StepRuns(opt_input, run) # {}
        /\ Len(run.queue) + Len(run.placements) = Len(opt_input.pieces)
        /\ run.status = "done" =>
               /\ run.queue = <<>>
               /\ Len(Result(opt_input, run).placements) = Len(opt_input.pieces)
               /\ \A i \in 1..Len(opt_input.pieces) :
                      Cardinality({k \in 1..Len(run.placements) :
                                      run.placements[k].inst = i}) = 1
               /\ \A k \in 1..Len(run.placements) :
                      LET pl == run.placements[k]
                      IN  /\ pl.id = opt_input.pieces[pl.inst].id
                          /\ pl.width = opt_input.pieces[pl.inst].width
                          /\ pl.height = opt_input.pieces[pl.inst].height

\* C3 witness: a finished layout of several instances on more than one
\* sheet, one of them rotated
C3_Witness ==
    /\ run.status = "done"
    /\ Len(opt_input.pieces) >= 3
    /\ run.sheets >= 2
    /\ \E pl \in Placed : pl.rotated

\* C4: a second call on the same pieces and sheet configuration returns the
\* result of the first, ties between best-fit rectangles included.
C4_Determinism ==
    (first_result # NoResult /\ run.status \in {"done", "error"})
        => Result(opt_input, run) = first_result

\* C4 witness: the second call is at a turn where several free rectangles
\* tie as best fit
C4_Witness ==
    /\ first_result # NoResult
    /\ first_result.kind = "ok"
    /\ run.status = "running"
    /\ Cardinality(BestFits(run, Head(run.queue))) > 1

C5_Oversized ==
    {i \in 1..Len(opt_input.pieces) :
        /\ \/ opt_input.pieces[i].width > opt_input.sheet_width
           \/ opt_input.pieces[i].height > opt_input.sheet_height
        /\ \/ opt_input.pieces[i].height > opt_input.sheet_width
           \/ opt_input.pieces[i].width > opt_input.sheet_height}

\* C5: when a piece exceeds the sheet in both orientations, the call ends in
\* a "piece too large" error naming such a piece, and no layout is returned.
C5_PieceTooLarge ==
    (C5_Oversized # {} /\ run.status # "idle") =>
        /\ run.status = "error"
        /\ Result(opt_input, run).kind = "error"
        /\ Result(opt_input, run).error = "piece too large"
        /\ \E i \in C5_Oversized : Result(opt_input, run).piece_id = opt_input.pieces[i].id
        /\ run.placements = <<>>

\* C5 witness: the call failed on a list that also holds a piece that fits
C5_Witness ==
    /\ run.status = "error"
    /\ C5_Oversized # {}
    /\ \E i \in 1..Len(opt_input.pieces) : i \notin C5_Oversized


(***************************************************************************)
(* Claims about the piece list optimize_nesting builds (checked under      *)
(* SpecOptimize).                                                          *)
(***************************************************************************)

C6_Items == ItemsOf(cutting_lists, request.drawing_id)

C6_ValidDims(item) ==
    /\ item.component_width.kind = "int" /\ item.component_width.num > 0
    /\ item.height.kind = "int" /\ item.height.num > 0

RECURSIVE C6_SumOfValid(_)
C6_SumOfValid(items) ==
    IF items = <<>> THEN 0
    ELSE (IF C6_ValidDims(Head(items)) THEN Head(items).quantity.num ELSE 0)
             + C6_SumOfValid(Tail(items))

\* C6: every row with valid dimensions and quantity N >= 1 contributes
\* exactly N pieces carrying its component_width, height, part_name and id,
\* and the number of pieces handed to the optimizer is the sum of the
\* quantities of the valid rows.
C6_QuantityExpansion ==
    optimizer_pieces.called =>
        LET pieces == optimizer_pieces.pieces
        IN  /\ \A k \in 1..Len(C6_Items) :
                   LET item == C6_Items[k]
                       mine == {i \in 1..Len(pieces) : pieces[i].id = item.id}
                   IN  (C6_ValidDims(item) /\ item.quantity.num >= 1) =>
                           /\ Cardinality(mine) = item.quantity.num
                           /\ \A i \in mine :
                                  /\ pieces[i].width = item.component_width
                                  /\ pieces[i].height = item.height
                                  /\ pieces[i].name = item.part_name
            /\ Len(pieces) = C6_SumOfValid(C6_Items)

\* C7: a row whose component_width or height is None or <= 0 is left out
\* of the piece list and reported as a warning while the other rows are
\* optimized: every piece that reaches the optimizer has width > 0 and
\* height > 0, and the request still succeeds.
C7_InvalidRowsExcluded ==
    /\ optimizer_pieces.called =>
           \A i \in 1..Len(optimizer_pieces.pieces) :
               LET piece == optimizer_pieces.pieces[i]
               IN  /\ piece.width.kind = "int" /\ piece.width.num > 0
                   /\ piece.height.kind = "int" /\ piece.height.num > 0
    /\ (/\ request.op = "optimize"
        /\ response.status \notin {403, 404}
        /\ \A k \in 1..Len(C6_Items) : C6_Items[k].quantity # None
        /\ \E k \in 1..Len(C6_Items) : ~C6_ValidDims(C6_Items[k]))
           => response.status = 200 /\ response.body.kind = "ok"

\* ---- C10: one record per table row of at least seven cells ----

RECURSIVE C10_DataRows(_, _)
\* the rows after the header that have at least seven cells, in row order
C10_DataRows(table, index) ==
    IF index > Len(table) THEN <<>>
    ELSE IF Len(table[index]) >= 7
         THEN <<table[index]>> \o C10_DataRows(table, index + 1)
         ELSE C10_DataRows(table, index + 1)

C10_FromRow(item, row) ==
    /\ item.component_type = row[1]
    /\ item.part_name = row[2]
    /\ item.overall_unit_width = _parse_dimension(row[3])
    /\ item.component_width = _parse_dimension(row[4])
    /\ item.height = _parse_dimension(row[5])
    /\ item.quantity = _parse_quantity(row[6])
    /\ item.material_thickness = _parse_dimension(row[7])
    /\ item.edge_banding_notes = (IF Len(row) >= 8 THEN row[8] ELSE None)

\* C10: after an upload whose OCR result is successful and carries
\* table_data, the records of the new drawing are exactly one per row after
\* the header row that has at least 7 cells, in row order, each with the
\* fields taken and parsed from that row's cells.
C10_OneRecordPerRow ==
    (/\ request.op = "upload"
     /\ request.ocr_result.success
     /\ request.ocr_result.has_table)
        => LET rows == C10_DataRows(request.ocr_result.table_data, 2)
               created == ItemsOf(cutting_lists, request.new_id)
           IN  /\ Len(created) = Len(rows)
               /\ \A k \in 1..Len(rows) : C10_FromRow(created[k], rows[k])

\* ---- C11: rows of fewer than seven cells ----

RECURSIVE C11_WithoutShortRows(_, _)
\* the table without its data rows of fewer than seven cells
C11_WithoutShortRows(table, index) ==
    IF index > Len(table) THEN <<>>
    ELSE IF index >= 2 /\ Len(table[index]) < 7
         THEN C11_WithoutShortRows(table, index + 1)
         ELSE <<table[index]>> \o C11_WithoutShortRows(table, index + 1)

\* the fields of a record that come from its row
C11_Fields(item) ==
    <<item.component_type, item.part_name, item.overall_unit_width,
      item.component_width, item.height, item.quantity,
      item.material_thickness, item.edge_banding_notes>>

C11_Created == ItemsOf(cutting_lists, request.new_id)

\* C11: a table row with fewer than 7 cells never yields a record: after an
\* upload with a successful OCR result carrying a table, no record of the
\* new drawing comes from such a row, and the upload ends as it would on
\* the same table without these rows (same success or failure, same
\* records in the same order).
C11_ShortRowsSkipped ==
    (/\ request.op = "upload"
     /\ request.ocr_result.success
     /\ request.ocr_result.has_table)
        => LET table == request.ocr_result.table_data
               without == CuttingItems(C11_WithoutShortRows(table, 1), request.new_id, 2)
           IN  /\ \A k \in 1..Len(C11_Created) :
                      Len(table[C11_Created[k].id[2]]) >= 7
               /\ (response.status = 201) = (without # <<NameError>>)
               /\ response.status = 201 =>
                      /\ Len(C11_Created) = Len(without)
                      /\ \A k \in 1..Len(without) :
                             C11_Fields(C11_Created[k]) = C11_Fields(without[k])

\* an upload whose table has a five-cell row has succeeded
C11_Witness ==
    /\ request.op = "upload"
    /\ request.ocr_result.success
    /\ request.ocr_result.has_table
    /\ \E k \in 2..Len(request.ocr_result.table_data) :
           Len(request.ocr_result.table_data[k]) < 7
    /\ response.status = 201
    /\ C11_Created = <<>>

\* ---- C12: extraction failure ----

\* the OCR result is successful and contains table_data
C12_Usable(ocr_result) ==
    ocr_result.success /\ ocr_result.has_table /\ ocr_result.table_data # <<>>

\* C12: the drawing created by an upload whose OCR result has success
\* false or no table_data has status "failed" and no cutting-list record;
\* a drawing is created with status "completed" only when the OCR result
\* is successful and contains table_data.
C12_FailedWithoutTable ==
    (request.op = "upload" /\ request.new_id # "")
        => \A d \in drawings :
               d.id = request.new_id =>
                   /\ ~C12_Usable(request.ocr_result) =>
                          /\ d.status = "failed"
                          /\ ItemsOf(cutting_lists, d.id) = <<>>
                   /\ d.status = "completed" => C12_Usable(request.ocr_result)

\* ---- C13: configuration errors ----

\* C13: an optimize request whose sheet_width or sheet_height is not
\* positive, or whose blade_width is negative, is rejected before any piece
\* is placed: the response carries no layout and the drawing's
\* optimization_result is left as it was.
C13_ConfigRejected ==
    [][(/\ requests' = requests + 1
        /\ request'.op = "optimize"
        /\ InvalidConfig(SheetConfig(request'.data)))
           => /\ response'.body.kind # "ok"
              /\ \A d \in drawings : \E e \in drawings' :
                     e.id = d.id /\ e.optimization_result = d.optimization_result]_vars

\* ---- C14: the last optimization result ----

\* the step is an optimize request on drawing d answered with its result
C14_Optimized(d) ==
    /\ request'.op = "optimize"
    /\ response'.status = 200
    /\ request'.drawing_id = d.id
    /\ request'.tenant_id = d.tenant_id

\* C14: a drawing's optimization_result is, unmodified, the result returned
\* by the most recent successful optimize request on it: such a request
\* stores exactly the result it returns in place of the previous one, no
\* other request changes the stored result, and a drawing has one record,
\* hence one current result.
C14_LastResultStored ==
    [][/\ \A d \in drawings' :
              IF C14_Optimized(d)
              THEN d.optimization_result = response'.body
              ELSE \/ \E e \in drawings :
                          e.id = d.id /\ e.optimization_result = d.optimization_result
                   \/ /\ d.id \notin {e.id : e \in drawings}
                      /\ d.optimization_result = NullResult
       /\ \A d, e \in drawings' : d.id = e.id => d = e]_vars

\* a successful optimize request has replaced an earlier, different result
C14_Witness ==
    /\ request.op = "optimize"
    /\ response.status = 200
    /\ response.body.kind = "ok"
    /\ request.loaded \cap {NullResult, response.body} = {}
    /\ \A r \in request.loaded : r.kind = "ok"
    /\ \E d \in drawings :
           d.id = request.drawing_id /\ d.optimization_result = response.body

\* ---- C15: two concurrent optimize requests ----

C15_Results == {sessions[s].result : s \in SessionIds}

\* C15: whatever the interleaving of two optimize requests on the same
\* drawing, once both have committed the stored optimization_result is the
\* complete result computed by one of the two, never a mixture.
C15_WholeResult ==
    (/\ sessions # <<>>
     /\ \A s \in SessionIds :
            sessions[s].drawing_id = "d1" /\ sessions[s].response.status = 200)
        => \A d \in drawings :
               d.id = "d1" => d.optimization_result \in C15_Results

\* both requests have committed layouts that differ in their sheets
C15_Witness ==
    /\ sessions # <<>>
    /\ \A s \in SessionIds :
           /\ sessions[s].drawing_id = "d1"
           /\ sessions[s].response.status = 200
           /\ sessions[s].result.kind = "ok"
    /\ sessions[1].result.sheets_used # sessions[2].result.sheets_used
    /\ requests = 2

\* ---- C16: typed outcomes ----

\* C16: whatever the persisted cutting list, an optimize request ends in a
\* typed outcome, a success or a structured failure, and never with an
\* exception no handler caught.
C16_TypedOutcome ==
    request.op = "optimize" =>
        /\ response.status # 500
        /\ response.body.kind \in {"none", "ok", "error"}

\* ---- C17: utilization bounds ----

\* the results of the call: the one the run has reached, the one kept from
\* the first call
C17_Results ==
    {r \in {first_result} \cup
           (IF run.status = "done" THEN {Result(opt_input, run)} ELSE {}) :
        r.kind = "ok"}

C17_SheetsArea(r) == r.sheets_used * opt_input.sheet_width * opt_input.sheet_height

C18_Scenario ==
    /\ request.op = "optimize"
    /\ C6_Items = <<BaseUnit600>>
    /\ SheetConfig(request.data) =
           [sheet_width |-> 2440, sheet_height |-> 1220, blade_width |-> 3]

C18_Apart(a, b) ==
    \/ a.x + PlacedWidth(a) + 3 <= b.x
    \/ b.x + PlacedWidth(b) + 3 <= a.x
    \/ a.y + PlacedHeight(a) + 3 <= b.y
    \/ b.y + PlacedHeight(b) + 3 <= a.y

\* C18: in the scenario all four 600 x 720 instances are placed, on a
\* single sheet, no two of them closer than the blade width and each
\* inside the sheet.
C18_EndToEnd ==
    C18_Scenario =>
        /\ response.status = 200
        /\ response.body.kind = "ok"
        /\ response.body.sheets_used = 1
        /\ Len(response.body.placements) = 4
        /\ \A i \in 1..Len(response.body.placements) :
               LET a == response.body.placements[i]
               IN  /\ a.id = BaseUnit600.id
                   /\ a.width = 600 /\ a.height = 720
                   /\ a.sheet_index = 0
                   /\ a.x >= 0 /\ a.x + PlacedWidth(a) <= 2440
                   /\ a.y >= 0 /\ a.y + PlacedHeight(a) <= 1220
                   /\ \A j \in 1..Len(response.body.placements) :
                          i # j => C18_Apart(a, response.body.placements[j])

\* the scenario has been optimized with the default configuration
C18_Witness ==
    /\ C18_Scenario
    /\ request.data = <<>>
    /\ response.status = 200
    /\ Len(optimizer_pieces.pieces) = 4

\* ---- C19: the quantity parser ----

C19_ExamplesHold ==
    /\ value = <<"4", " ", "p", "c", "s">> => quantity = IntValue(4)
    /\ value \in {<<>>, <<"a", "b", "c">>} => quantity = IntValue(1)

\* C19 as stated: _parse_quantity returns the integer formed by the digits
\* 0..9 of the input taken in order when there is at least one, and 1 when
\* there is none.
C19_QuantityOfDigits ==
    quantity # Unset =>
        LET c == Filter(value, DecimalDigits)
        IN  /\ quantity = IntValue(IF c = <<>> THEN 1 ELSE C9_Positional(c, 1))
            /\ C19_ExamplesHold

\* C19 amended: with c the input reduced to the characters str.isdigit
\* accepts, _parse_quantity returns 1 when c is empty or holds a digit
\* character that is no decimal digit (such as U+00B2), and otherwise the
\* integer formed by the digits of c taken in order.
C19_QuantityParsed ==
    quantity # Unset =>
        LET c == Filter(value, DecimalDigits \cup {"sup2"})
        IN  /\ quantity = IntValue(IF c = <<>> \/ \E i \in 1..Len(c) : c[i] = "sup2"
                                   THEN 1 ELSE C9_Positional(c, 1))
            /\ C19_ExamplesHold

\* "4 pcs" has been parsed to 4
C19_Witness ==
    value = <<"4", " ", "p", "c", "s">> /\ quantity = IntValue(4)

\* ---- C20: waste and utilization ----

\* the sum of the areas of the pieces a result places, instance by instance
C20_Placed(r) ==
    LET at == r.placements
        RECURSIVE Sum(_)
        Sum(k) == IF k = 0 THEN 0 ELSE at[k].width * at[k].height + Sum(k - 1)
    IN  Sum(Len(at))

\* h hundredths of a percent is part * 100 / whole rounded to 2 decimals:
\* |h * whole - part * 10000| <= whole / 2, written on the whole percents
\* and the hundredths apart
C20_Rounded(h, part, whole) ==
    LET over == part * 100 - (h \div 100) * whole
        gap == (h % 100) * whole - 100 * over
    IN  2 * gap <= whole /\ -2 * gap <= whole

C21_OpenedWhenNeeded ==
    (run.status = "running" /\ run'.sheets > run.sheets)
        => /\ Candidates(run, Head(run.queue)) = {}
           /\ run'.sheets = run.sheets + 1

\* in the result r every sheet 0 .. sheets_used - 1 carries a placement
\* and sheets_used is the largest sheet_index plus one
C21_NoEmptySheet(r) ==
    /\ \A s \in 0..(r.sheets_used - 1) :
           \E k \in 1..Len(r.placements) : r.placements[k].sheet_index = s
    /\ \A k \in 1..Len(r.placements) : r.placements[k].sheet_index < r.sheets_used

C22_Alone(s) ==
    LET in == OptimizerInput(BuildPieces(ItemsOf(cutting_lists, sessions[s].drawing_id)),
                             SheetConfig(sessions[s].data))
    IN  Result(in, RunAll(in, StartRun(in)))

C23_OrZero(v) == IF v.kind = "int" THEN v.num ELSE 0

\* the sum over the reported rows of area_mm2 times quantity
C23_Total(dicts) ==
    LET RECURSIVE Sum(_)
        Sum(k) == IF k = 0 THEN 0
                  ELSE dicts[k].area_mm2 * C23_OrZero(dicts[k].quantity) + Sum(k - 1)
    IN  Sum(Len(dicts))

\* C23: for every drawing, get reports a total area that is the sum over
\* the rows of component_width * height * quantity (None counted as 0) in
\* m2 rounded to 2 decimals, and for each row an area_mm2 of
\* component_width * height (None counted as 0), so that a row with a
\* missing dimension contributes 0.
C23_TotalArea ==
    (request.op = "get" /\ request.tenant_id = "t1" /\ request.drawing_id = "d1")
        => /\ response.status = 200
           /\ LET dicts == response.body.cutting_list
                  rows == ItemsOf(cutting_lists, "d1")
                  gap == response.body.total_area_m2.num * 10000 - C23_Total(dicts)
              IN  /\ Len(dicts) = Len(rows)
                  /\ \A k \in 1..Len(rows) :
                         /\ dicts[k].id = rows[k].id
                         /\ dicts[k].quantity = rows[k].quantity
                         /\ dicts[k].area_mm2 =
                                C23_OrZero(rows[k].component_width) * C23_OrZero(rows[k].height)
                         /\ (rows[k].component_width = None \/ rows[k].height = None)
                                => dicts[k].area_mm2 = 0
                  /\ response.body.total_area_m2.den = 100
                  /\ 2 * gap <= 10000 /\ -2 * gap <= 10000

\* ---- C24: the module gate ----

\* C24: a request of any of the six operations whose X-Tenant-ID names no
\* tenant is answered 404, one whose tenant has not enabled
\* cutting_list_generator is answered 403, and in both cases the handler
\* does not run: no drawing, row, result or file is created, changed or
\* deleted.
C24_Gate ==
    [][(requests' = requests + 1 /\ request'.tenant_id \notin {"t1", "t2"})
          => /\ request'.op \in {"upload", "get", "list", "preview", "optimize", "delete"}
             /\ response'.status = (IF request'.tenant_id = "t3" THEN 403 ELSE 404)
             /\ response'.body = NoBody
             /\ UNCHANGED <<drawings, cutting_lists, files, issued>>
             /\ ~optimizer_pieces'.called]_vars

\* a delete of an existing drawing was refused to the tenant without the
\* module, after an upload was refused to an unknown tenant
C24_Witness ==
    /\ request.op = "delete"
    /\ request.tenant_id = "t3"
    /\ response.status = 403
    /\ request.drawing_id \in {d.id : d \in drawings}
    /\ requests = 2

\* ---- C25: an upload is atomic in the database ----

\* a step after db.session.add(drawing) raises: the table has a data row of
\* seven cells or more
C25_RaisesAfterAdd(ocr_result) ==
    /\ ~ocr_result.raises
    /\ ocr_result.success
    /\ ocr_result.has_table
    /\ \E i \in 2..Len(ocr_result.table_data) : Len(ocr_result.table_data[i]) >= 7

C26_Foreign(req, ds) ==
    /\ req.op \in {"get", "preview", "optimize", "delete"}
    /\ \E d \in ds : d.id = req.drawing_id /\ d.tenant_id # req.tenant_id

\* C26: a get, preview, optimize or delete request on a drawing of another
\* tenant changes no drawing, row or file and is answered 404 (403 where
\* the gate refuses the requester itself); a list answered 200 returns
\* exactly the drawings of the requesting tenant.
C26_TenantIsolation ==
    [][(requests' = requests + 1)
          => /\ C26_Foreign(request', drawings)
                    => /\ response'.status =
                              (IF request'.tenant_id = "t3" THEN 403 ELSE 404)
                       /\ UNCHANGED <<drawings, cutting_lists, files>>
                       /\ ~optimizer_pieces'.called
             /\ (request'.op = "list" /\ response'.status = 200)
                    => /\ \A d \in response'.body.drawings :
                              d.tenant_id = request'.tenant_id
                       /\ \A d \in drawings :
                              d.tenant_id = request'.tenant_id
                                  => d \in response'.body.drawings]_vars

\* tenant t2 asked to delete drawing d1 of tenant t1, which holds a stored
\* result, and was answered 404; d1, its file and its result are in place
C26_Witness ==
    /\ request.op = "delete"
    /\ request.tenant_id = "t2"
    /\ request.drawing_id = "d1"
    /\ response.status = 404
    /\ \E d \in drawings :
          /\ d.id = "d1"
          /\ d.tenant_id = "t1"
          /\ d.optimization_result # NullResult
          /\ d.file_path \in files

\* ---- C27: no row outlives its drawing ----

\* every cutting-list row references a drawing of the database
C27_NoOrphan ==
    \A i \in 1..Len(cutting_lists) :
        cutting_lists[i].drawing_id \in {d.id : d \in drawings}

\* the last request deleted the drawing
C27_Deleted(id) ==
    /\ request.op = "delete"
    /\ request.drawing_id = id
    /\ response.status = 200

\* the drawing and its rows are gone, and a request naming it was not served
C27_Gone(id) ==
    /\ id \notin {d.id : d \in drawings}
    /\ ItemsOf(cutting_lists, id) = <<>>
    /\ (/\ request.op \in {"get", "preview", "optimize", "delete"}
        /\ request.drawing_id = id
        /\ ~C27_Deleted(id))
           => response.status \in {403, 404}
    /\ (/\ request.op \in {"get", "preview", "optimize", "delete"}
        /\ request.drawing_id = id
        /\ request.tenant_id \in {"t1", "t2"}
        /\ ~C27_Deleted(id))
           => response.status = 404

\* C27: at every point of every sequence of requests each cutting-list row
\* references an existing drawing; once a delete of a drawing has
\* succeeded, the drawing and its rows stay gone and every later get,
\* preview, optimize or delete on its id is answered 404.
C27_DeleteCascades ==
    /\ []C27_NoOrphan
    /\ \A id \in RequestDrawingIds : [](C27_Deleted(id) => []C27_Gone(id))

\* drawing d1 was deleted and its owner's optimize request on it was then
\* answered 404
C27_Witness ==
    /\ requests = 2
    /\ request.op = "optimize"
    /\ request.tenant_id = "t1"
    /\ request.drawing_id = "d1"
    /\ response = Response(404, "Drawing not found", NoBody)
    /\ "d1" \notin {d.id : d \in drawings}
    /\ FilePath("d1") \notin files

\* ---- C28: optimize without a cutting list ----

\* C28: an optimize request of a tenant on one of its drawings that has no
\* cutting-list row is answered 404 'No cutting list found', the optimizer
\* is not called, and the drawing keeps its optimization_result and its
\* updated_at.
C28_NoCuttingList ==
    [][(/\ requests' = requests + 1
        /\ request'.op = "optimize"
        /\ DrawingsOf(drawings, request'.drawing_id, request'.tenant_id) # {}
        /\ request'.tenant_id # "t3"
        /\ ItemsOf(cutting_lists, request'.drawing_id) = <<>>)
          => /\ response' = Response(404, "No cutting list found", NoBody)
             /\ ~optimizer_pieces'.called
             /\ UNCHANGED <<drawings, cutting_lists>>]_vars

\* an upload whose extraction failed left drawing u1 without rows, and the
\* optimize request on u1 was answered 404 'No cutting list found'
C28_Witness ==
    /\ request.op = "optimize"
    /\ request.drawing_id = "u1"
    /\ response = Response(404, "No cutting list found", NoBody)
    /\ \E d \in drawings :
          /\ d.id = "u1"
          /\ d.tenant_id = request.tenant_id
          /\ d.status = "failed"
          /\ d.optimization_result = NullResult
          /\ d.updated_at = 1
    /\ ~optimizer_pieces.called

(***************************************************************************)
(* Claims about the form tokens (checked under SpecForm).                 *)
(***************************************************************************)

\* the submission records created with the token
C29_Rows(token) == {i \in 1..Len(form_rows) : form_rows[i].token_used = token}

\* validate or submit requests with a token that already has a submission
\* record are answered 410 'Token has already been used'
C29_UsedAnswered(token) ==
    LET used == Response(410, "Token has already been used", NoBody)
    IN  C29_Rows(token) # {}
          => /\ (form_last' # form_last /\ form_last'.token = token)
                    => form_last'.response = used
             /\ \A s \in SubmitThreads :
                    (/\ form_counts'.submits = form_counts.submits + 1
                     /\ submits'[s] # submits[s]
                     /\ submits'[s].token = token)
                        => submits'[s].response = used

\* C29: for every token issued by either generate-form-link endpoint and
\* every sequence or interleaving of submit requests carrying it, at most
\* one submission record is created with the token, and once one exists
\* every later validate and submit request with the token is answered 410
\* 'Token has already been used'.
C29_SingleUse ==
    /\ [](\A i \in 1..MaxTokens : Cardinality(C29_Rows(FormTokenIds[i])) <= 1)
    /\ [][\A i \in 1..MaxTokens : C29_UsedAnswered(FormTokenIds[i])]_vars

(***************************************************************************)
(* Claims about the login rate limit (checked under SpecLogin).           *)
(***************************************************************************)

\* C30: a login request carrying an email and a password, made while at
\* least MAX_ATTEMPTS failed attempts for the email were logged within the
\* window, is answered 429 whatever the password, creates no session and
\* logs no attempt; made while fewer lie in the window it is not answered
\* 429, however many failures were logged before the window.
C30_RateLimit ==
    [][(/\ logins' = logins + 1
        /\ login_last'.email # <<>>
        /\ login_last'.password # "")
          => LET recent == RecentFailures(NormalizeEmail(login_last'.email),
                                          login_attempts, auth_clock)
             IN  /\ Cardinality(recent) >= 5
                      => /\ login_last'.status = 429
                         /\ UNCHANGED <<login_attempts, user_sessions>>
                 /\ Cardinality(recent) < 5 => login_last'.status # 429]_vars

\* after five failures within the window, the request with the user's own
\* password was answered 429; no session exists and no attempt beyond the
\* five and those of the other email is logged
C30_Witness ==
    /\ login_last.op = "login"
    /\ login_last.password = "right"
    /\ login_last.status = 429
    /\ users[UserEmail] = [password |-> "right", is_active |-> TRUE, tenant |-> "active"]
    /\ Cardinality(RecentFailures(UserEmail, login_attempts, auth_clock)) = 5
    /\ Len(login_attempts) = 5 + MAX_ATTEMPTS
    /\ user_sessions = <<>>

=============================================================================
